---------------------------- MODULE Spec2Model ----------------------------
(***************************************************************************)
(* Model of the MTG winrate graph: the Graph Builder of                    *)
(* src/src/graph_build.py, the Dataset Serializer of                       *)
(* src/src/render_html.py and the interactive re-projection layer (the     *)
(* JavaScript that render_html.py injects into the page).                  *)
(*                                                                         *)
(* Number representation.  The program computes in IEEE-754 doubles; the   *)
(* model computes in fixed point:                                          *)
(*   - a winrate is an integer number of thousandths (0.7 is 700);         *)
(*   - sizes and widths are thousandths of a pixel (EDGE_WIDTH_MAX = 16    *)
(*     is 16000);                                                          *)
(*   - a coordinate is kept in polar form: x is [r, num, den], standing    *)
(*     for r*cos(2*pi*num/den), and y is [r, num, den, dy], standing for   *)
(*     r*sin(2*pi*num/den) - dy/100000;                                    *)
(*   - a logarithm is log2 in units of 1/4096 (only ratios of differences  *)
(*     of logarithms are used, so the base does not matter).               *)
(* The one place where the rounding of doubles decides an outcome, the     *)
(* tie test |wr - 0.5| <= 0.005, is computed exactly (see IsTie).          *)
(***************************************************************************)
EXTENDS Integers, Sequences, FiniteSets, TLC

(***************************************************************************)
(* Bounds of the model.                                                    *)
(***************************************************************************)
MaxRows == 2          \* rows of a matchup table in the builder family
MaxRowsTopN == 1      \* rows of a matchup table in the cutoff family
MaxTopN == 2          \* largest TOP_N_ARCHETYPES tried (0 = no cutoff)

(***************************************************************************)
(* config.py                                                               *)
(***************************************************************************)
MIN_MATCHES_EDGE == 1
EPS_TIE == 5
NODE_SIZE_MIN == 6000
NODE_SIZE_MAX == 40000
EDGE_WIDTH_MIN == 200
EDGE_WIDTH_MAX == 16000
RING_COUNT == 5
RING_RADIUS_BASE == 260
RING_RADIUS_STEP == 220
DEFAULT_RANGE_KEY == "last180days"
HIDE_ISOLATED_NODES == FALSE

NoWinrate == 0 - 1    \* None / NaN / undefined for a winrate field

(***************************************************************************)
(* Generic helpers.                                                        *)
(***************************************************************************)
Min2(a, b) == IF a <= b THEN a ELSE b
Max2(a, b) == IF a >= b THEN a ELSE b
Abs(a) == IF a < 0 THEN 0 - a ELSE a
Range(s) == {s[i] : i \in DOMAIN s}

RECURSIVE SetMin(_)
SetMin(S) == LET x == CHOOSE y \in S : TRUE
             IN IF S = {x} THEN x ELSE Min2(x, SetMin(S \ {x}))
RECURSIVE SetMax(_)
SetMax(S) == LET x == CHOOSE y \in S : TRUE
             IN IF S = {x} THEN x ELSE Max2(x, SetMax(S \ {x}))

\* graph_build.py clamp
clamp(x, lo, hi) == Max2(lo, Min2(hi, x))

(***************************************************************************)
(* Fixed-point square root: floor(sqrt(n)), by bisection.                  *)
(***************************************************************************)
RECURSIVE IsqrtBetween(_, _, _)
IsqrtBetween(n, lo, hi) ==
    IF hi - lo <= 1 THEN lo
    ELSE LET mid == (lo + hi) \div 2
         IN IF mid * mid <= n THEN IsqrtBetween(n, mid, hi)
                              ELSE IsqrtBetween(n, lo, mid)
Isqrt(n) == IsqrtBetween(n, 0, 46341)

\* math.sqrt(v) in thousandths, for 0 <= v <= 2147
SqrtMilli(v) == Isqrt(v * 1000000)

(***************************************************************************)
(* scale_sqrt and scale_power of graph_build.py, in thousandths.           *)
(***************************************************************************)
scale_sqrt(value, vmin, vmax, out_min, out_max) ==
    IF value <= 0 THEN out_min
    ELSE LET v == clamp(value, vmin, vmax)
             a == IF vmin > 0 THEN SqrtMilli(vmin) ELSE 0
             b == IF vmax > 0 THEN SqrtMilli(vmax) ELSE 1000
         IN IF b # a
            THEN out_min + ((SqrtMilli(v) - a) * (out_max - out_min)) \div (b - a)
            ELSE out_min

\* x ** 3.5 for x in thousandths (0..1000): x^3 * sqrt(x)
Pow35Milli(x) ==
    LET cube == ((((x * x) \div 1000) * x) \div 1000)
    IN (cube * Isqrt(x * 1000)) \div 1000

scale_power(value, vmin, vmax, out_min, out_max) ==
    IF value <= 0 THEN out_min
    ELSE LET v == clamp(value, vmin, vmax)
             x == IF vmax # vmin THEN ((v - vmin) * 1000) \div (vmax - vmin) ELSE 0
         IN out_min + (Pow35Milli(x) * (out_max - out_min)) \div 1000

(***************************************************************************)
(* The tie test  abs(wr - 0.5) <= 0.005  on doubles, decided exactly.      *)
(* For a winrate of p thousandths the double is round(p*2^e/1000)/2^e      *)
(* (e = 53 for 0.5 <= wr < 1, e = 54 for 0.25 <= wr < 0.5), the            *)
(* subtraction from 0.5 is exact, and 0.005 is round(5*2^60/1000)/2^60.    *)
(* With r(p, e) the signed rounding remainder of p*2^e modulo 1000,        *)
(*   wr >= 0.5:  (p - 505) * 2^60 <= 128 * r(p, 53) - r(5, 60)             *)
(*   wr <  0.5:  (495 - p) * 2^60 <= -64 * r(p, 54) - r(5, 60)             *)
(* so the remainders decide exactly when |p - 500| = 5.                    *)
(***************************************************************************)
RECURSIVE TwoPowMod(_, _)
TwoPowMod(e, n) == IF e = 0 THEN 1 % n ELSE (2 * TwoPowMod(e - 1, n)) % n

DoubleRoundRem(p, e) ==
    LET r == (p * TwoPowMod(e, 1000)) % 1000
    IN IF r >= 500 THEN r - 1000 ELSE r

AbsDiffHalfLeEps(p) ==
    IF Abs(p - 500) < EPS_TIE THEN TRUE
    ELSE IF Abs(p - 500) > EPS_TIE THEN FALSE
    ELSE IF p >= 500
         THEN 0 <= 128 * DoubleRoundRem(p, 53) - DoubleRoundRem(EPS_TIE, 60)
         ELSE 0 <= 0 - 64 * DoubleRoundRem(p, 54) - DoubleRoundRem(EPS_TIE, 60)

\* the test as exact decimal arithmetic would decide it
AbsDiffHalfLeEpsDecimal(p) == Abs(p - 500) <= EPS_TIE

\* graph_build.py:256  neutral = abs(wr_ab - 0.5) <= EPS_TIE
IsTie(wr_ab) == AbsDiffHalfLeEps(wr_ab)

(***************************************************************************)
(* winrate_to_color (graph_build.py) and winrateColor (the page script).   *)
(* Both compute t = tanh(k*u)^gamma with u = |wr - 0.5| / 0.5 and blend    *)
(* yellow towards green (wr >= 0.5) or red.  The model keeps the colour    *)
(* as the inputs of that blend: the output format, the target channel,     *)
(* the steepness k (tenths), gamma (hundredths) and u (thousandths).       *)
(* u = 0 gives t = 0, exactly yellow.                                      *)
(***************************************************************************)
ColorLaw(fmt, k10, g100, wr) ==
    LET x == clamp(wr, 0, 1000)
    IN IF x >= 500
       THEN [fmt |-> fmt, toward |-> "green", k |-> k10, gamma |-> g100,
             u |-> ((x - 500) * 1000) \div 500]
       ELSE [fmt |-> fmt, toward |-> "red", k |-> k10, gamma |-> g100,
             u |-> ((500 - x) * 1000) \div 500]

winrate_to_color(wr) == ColorLaw("hex", 55, 55, wr)
edge_winrate_color(wr) == winrate_to_color(wr)
node_winrate_color(wr) == winrate_to_color(wr)
winrateColor(wr) == ColorLaw("rgb", 85, 45, wr)

(***************************************************************************)
(* Tables.  An archetype row is [archetype, overall_matches,               *)
(* overall_winrate]; a matchup row is [a, b, winrate_a_vs_b, matches].     *)
(***************************************************************************)
NameSeq == <<"A", "B", "C">>
Names == Range(NameSeq)
NameRank(n) == CHOOSE i \in DOMAIN NameSeq : NameSeq[i] = n

\* the values of a column
MatchesColumn(df) == {df[i].matches : i \in DOMAIN df}
OverallMatchesColumn(df) == {df[i].overall_matches : i \in DOMAIN df}
ArchetypeColumn(df) == {df[i].archetype : i \in DOMAIN df}

\* DataFrame.head(n)
HeadRows(df, n) == SubSeq(df, 1, Min2(n, Len(df)))

\* sort_values("overall_matches", ascending=False): every arrangement of the
\* rows in descending order; rows with equal keys come in an order the sort
\* algorithm picks.
Perms(n) == {p \in [1..n -> 1..n] : \A i, j \in 1..n : i # j => p[i] # p[j]}
SortValuesDesc(df) ==
    {[i \in 1..Len(df) |-> df[p[i]]] : p \in
        {q \in Perms(Len(df)) :
            \A i, j \in 1..Len(df) :
                i < j => df[q[i]].overall_matches >= df[q[j]].overall_matches}}

(***************************************************************************)
(* networkx.DiGraph: nodes and edges in insertion order.                   *)
(***************************************************************************)
EmptyGraph == [raised |-> FALSE, nodes |-> <<>>, edges |-> <<>>]
RaisedGraph == [raised |-> TRUE, nodes |-> <<>>, edges |-> <<>>]

NodeIds(G) == {G.nodes[i].id : i \in DOMAIN G.nodes}

\* G.add_node(id, **attrs): a known node keeps its place and takes the attrs
add_node(G, n) ==
    IF n.id \in NodeIds(G)
    THEN [G EXCEPT !.nodes = [i \in DOMAIN G.nodes |->
                                 IF G.nodes[i].id = n.id THEN n ELSE G.nodes[i]]]
    ELSE [G EXCEPT !.nodes = Append(G.nodes, n)]

\* a node that add_edge creates has no attributes; the serializer reads the
\* defaults size 25, matches 0, no winrate for it
BareNode(id) == [id |-> id, size |-> 25000, matches |-> 0, overall_winrate |-> NoWinrate]

\* G.add_edge(u, v, **attrs): creates missing endpoints; a known (u, v) edge
\* keeps its place and takes the attrs
add_edge(G, e) ==
    LET G1 == IF e.from \in NodeIds(G) THEN G ELSE add_node(G, BareNode(e.from))
        G2 == IF e.to \in NodeIds(G1) THEN G1 ELSE add_node(G1, BareNode(e.to))
        known == \E i \in DOMAIN G2.edges :
                    G2.edges[i].from = e.from /\ G2.edges[i].to = e.to
    IN IF known
       THEN [G2 EXCEPT !.edges = [i \in DOMAIN G2.edges |->
                IF G2.edges[i].from = e.from /\ G2.edges[i].to = e.to
                THEN e ELSE G2.edges[i]]]
       ELSE [G2 EXCEPT !.edges = Append(G2.edges, e)]

(***************************************************************************)
(* build_graph, graph_build.py:173-310.                                    *)
(***************************************************************************)
\* the cutoff is not applied
TopRowsAll(arch, topN) == arch
\* lines 174-176: the rows kept after the sort (arch is already sorted)
TopRows(arch, topN) == IF topN > 0 THEN HeadRows(arch, topN) ELSE arch

\* lines 183-206: one node per kept archetype
RECURSIVE AddArchetypeNodes(_, _, _, _)
AddArchetypeNodes(G, rows, vmin, vmax) ==
    IF rows = <<>> THEN G
    ELSE AddArchetypeNodes(
            add_node(G, [id |-> rows[1].archetype,
                         size |-> scale_sqrt(rows[1].overall_matches, vmin, vmax,
                                             NODE_SIZE_MIN, NODE_SIZE_MAX),
                         matches |-> rows[1].overall_matches,
                         overall_winrate |-> rows[1].overall_winrate]),
            Tail(rows), vmin, vmax)

\* lines 208-213: the filtered matchup table m
FilteredMatchups(matchups, top_names) ==
    LET Keep(r) == r.matches >= MIN_MATCHES_EDGE /\ r.a \in top_names /\ r.b \in top_names
    IN SelectSeq(matchups, Keep)

\* line 227: tuple(sorted([a, b]))
PairKey(a, b) == IF NameRank(a) <= NameRank(b) THEN <<a, b>> ELSE <<b, a>>

\* the seen set is never consulted
PairSeenNever(seen_pairs, key) == FALSE
\* lines 228-229: is the pair already handled
PairSeen(seen_pairs, key) == key \in seen_pairs

\* the last row of the pair's orientation is read instead of the first
PickRowLast(m, a, b) ==
    LET ab == SelectSeq(m, LAMBDA r : r.a = a /\ r.b = b)
        ba == SelectSeq(m, LAMBDA r : r.a = b /\ r.b = a)
    IN IF ab # <<>>
       THEN [found |-> TRUE, wr_ab |-> ab[Len(ab)].winrate_a_vs_b,
             matches |-> ab[Len(ab)].matches]
       ELSE IF ba # <<>>
            THEN [found |-> TRUE, wr_ab |-> 1000 - ba[Len(ba)].winrate_a_vs_b,
                  matches |-> ba[Len(ba)].matches]
            ELSE [found |-> FALSE, wr_ab |-> 0, matches |-> 0]

\* lines 232-246: the row the edge is read from, as [found, wr_ab, matches]
PickRow(m, a, b) ==
    LET ab == SelectSeq(m, LAMBDA r : r.a = a /\ r.b = b)
        ba == SelectSeq(m, LAMBDA r : r.a = b /\ r.b = a)
    IN IF ab # <<>>
       THEN [found |-> TRUE, wr_ab |-> ab[1].winrate_a_vs_b, matches |-> ab[1].matches]
       ELSE IF ba # <<>>
            THEN [found |-> TRUE, wr_ab |-> 1000 - ba[1].winrate_a_vs_b,
                  matches |-> ba[1].matches]
            ELSE [found |-> FALSE, wr_ab |-> 0, matches |-> 0]

\* the edge always runs a -> b with the row's winrate
EdgeForNoFlip(a, b, wr_ab, matches, m_min, m_max) ==
    LET width == scale_power(matches, m_min, m_max, EDGE_WIDTH_MIN, EDGE_WIDTH_MAX)
    IN IF IsTie(wr_ab)
       THEN [from |-> a, to |-> b, matches |-> matches, winrate |-> wr_ab,
             winrate_from |-> 500, neutral |-> TRUE, width |-> width,
             color |-> edge_winrate_color(500), arrows |-> ""]
       ELSE [from |-> a, to |-> b, matches |-> matches, winrate |-> wr_ab,
             winrate_from |-> wr_ab, neutral |-> FALSE, width |-> width,
             color |-> edge_winrate_color(wr_ab), arrows |-> "to"]

\* the losing side becomes the source but the winrate is not complemented
EdgeForNoComplement(a, b, wr_ab, matches, m_min, m_max) ==
    LET width == scale_power(matches, m_min, m_max, EDGE_WIDTH_MIN, EDGE_WIDTH_MAX)
    IN IF IsTie(wr_ab)
       THEN [from |-> a, to |-> b, matches |-> matches, winrate |-> wr_ab,
             winrate_from |-> 500, neutral |-> TRUE, width |-> width,
             color |-> edge_winrate_color(500), arrows |-> ""]
       ELSE LET src == IF wr_ab > 500 THEN a ELSE b
                dst == IF wr_ab > 500 THEN b ELSE a
            IN [from |-> src, to |-> dst, matches |-> matches, winrate |-> wr_ab,
                winrate_from |-> wr_ab, neutral |-> FALSE, width |-> width,
                color |-> edge_winrate_color(wr_ab), arrows |-> "to"]

\* lines 248-304: the edge for pair (a, b) with winrate wr_ab
EdgeFor(a, b, wr_ab, matches, m_min, m_max) ==
    LET width == scale_power(matches, m_min, m_max, EDGE_WIDTH_MIN, EDGE_WIDTH_MAX)
    IN IF IsTie(wr_ab)
       THEN [from |-> a, to |-> b, matches |-> matches, winrate |-> wr_ab,
             winrate_from |-> 500, neutral |-> TRUE, width |-> width,
             color |-> edge_winrate_color(500), arrows |-> ""]
       ELSE LET src == IF wr_ab > 500 THEN a ELSE b
                dst == IF wr_ab > 500 THEN b ELSE a
                wr == IF wr_ab > 500 THEN wr_ab ELSE 1000 - wr_ab
            IN [from |-> src, to |-> dst, matches |-> matches, winrate |-> wr,
                winrate_from |-> wr, neutral |-> FALSE, width |-> width,
                color |-> edge_winrate_color(wr), arrows |-> "to"]

\* lines 220-304: the loop over the rows of m
RECURSIVE AddMatchupEdges(_, _, _, _, _, _)
AddMatchupEdges(G, m, i, seen_pairs, m_min, m_max) ==
    IF i > Len(m) THEN G
    ELSE LET a == m[i].a
             b == m[i].b
             key == PairKey(a, b)
         IN IF a = b THEN AddMatchupEdges(G, m, i + 1, seen_pairs, m_min, m_max)
            ELSE IF PairSeen(seen_pairs, key)
                 THEN AddMatchupEdges(G, m, i + 1, seen_pairs, m_min, m_max)
                 ELSE LET row == PickRow(m, a, b)
                      IN IF ~row.found
                         THEN AddMatchupEdges(G, m, i + 1, seen_pairs \cup {key},
                                              m_min, m_max)
                         ELSE AddMatchupEdges(
                                add_edge(G, EdgeFor(a, b, row.wr_ab, row.matches,
                                                    m_min, m_max)),
                                m, i + 1, seen_pairs \cup {key}, m_min, m_max)

\* lines 306-308: HIDE_ISOLATED_NODES
DropIsolated(G) ==
    IF HIDE_ISOLATED_NODES
    THEN [G EXCEPT !.nodes = SelectSeq(G.nodes, LAMBDA n :
            \E i \in DOMAIN G.edges : G.edges[i].from = n.id \/ G.edges[i].to = n.id)]
    ELSE G

\* arch: the archetype table as sort_values returned it
build_graph(arch, matchups, topN) ==
    LET arch_sorted == TopRows(arch, topN)
    IN IF arch_sorted = <<>> THEN RaisedGraph    \* line 180: int(nan)
       ELSE
        LET lo == SetMin(OverallMatchesColumn(arch_sorted))
            hi == SetMax(OverallMatchesColumn(arch_sorted))
            vmin == Max2(1, lo)
            vmax == Max2(vmin + 1, hi)
            G0 == AddArchetypeNodes(EmptyGraph, arch_sorted, vmin, vmax)
            top_names == ArchetypeColumn(arch_sorted)
            m == FilteredMatchups(matchups, top_names)
            m_min == IF m # <<>>
                     THEN Max2(MIN_MATCHES_EDGE, SetMin(MatchesColumn(m)))
                     ELSE MIN_MATCHES_EDGE
            m_max0 == IF m # <<>> THEN SetMax(MatchesColumn(m)) ELSE MIN_MATCHES_EDGE
            m_max == IF m_max0 <= m_min THEN m_min + 1 ELSE m_max0
        IN DropIsolated(AddMatchupEdges(G0, m, 1, {}, m_min, m_max))

(***************************************************************************)
(* Logarithms.  Every use of math.log10 / Math.log10 in the program is a   *)
(* ratio (log(m) - log(lo)) / (log(hi) - log(lo)), in which the base       *)
(* cancels; LogQ(n) is log2(n) in units of 2^-12, by repeated squaring of  *)
(* the mantissa.  LogQ is strictly monotone on the values used and the     *)
(* ratio is exactly 0 at m = lo and exactly 1 at m = hi, as in doubles.    *)
(***************************************************************************)
RECURSIVE FloorLog2(_)
FloorLog2(n) == IF n < 2 THEN 0 ELSE 1 + FloorLog2(n \div 2)
Pow2(k) == 2 ^ k
RECURSIVE LogFrac(_, _)
LogFrac(y, bits) ==
    IF bits = 0 THEN 0
    ELSE LET sq == (y * y) \div 16384
         IN IF sq >= 32768 THEN Pow2(bits - 1) + LogFrac(sq \div 2, bits - 1)
                           ELSE LogFrac(sq, bits - 1)
LogQ(n) ==
    LET k == FloorLog2(n)
    IN k * 4096 + LogFrac((n * 16384) \div Pow2(k), 12)

\* graph_build.py:29-36.  0.0 is log10(1) and 1.0 is log10(10).
scale_log(value, vmin, vmax, out_min, out_max) ==
    IF value <= 0 THEN out_min
    ELSE LET v == clamp(value, vmin, vmax)
             a == IF vmin > 0 THEN LogQ(vmin) ELSE LogQ(1)
             b == IF vmax > 0 THEN LogQ(vmax) ELSE LogQ(10)
         IN IF b # a
            THEN out_min + ((LogQ(v) - a) * (out_max - out_min)) \div (b - a)
            ELSE out_min
\* line 35: math.log10 of a number that is not positive raises ValueError
scale_log_raises(value, vmin, vmax) ==
    /\ value > 0
    /\ (IF vmin > 0 THEN LogQ(vmin) ELSE LogQ(1)) # (IF vmax > 0 THEN LogQ(vmax) ELSE LogQ(10))
    /\ clamp(value, vmin, vmax) <= 0
\* line 45: math.sqrt of a negative number raises ValueError
scale_sqrt_raises(value, vmin, vmax) ==
    /\ value > 0
    /\ (IF vmin > 0 THEN SqrtMilli(vmin) ELSE 0) # (IF vmax > 0 THEN SqrtMilli(vmax) ELSE 1000)
    /\ clamp(value, vmin, vmax) < 0

RECURSIVE Gcd(_, _)
Gcd(a, b) == IF b = 0 THEN a ELSE Gcd(b, a % b)

(***************************************************************************)
(* The RGB value of a colour: t = tanh(k*u)^gamma and the blend of yellow  *)
(* towards green or red, rounded per channel, in fixed point with          *)
(* ColorOne = 2^15 for 1.0.  tanh(z) is (1 - e)/(1 + e) with e = 2^-y,     *)
(* y = 2*z*log2(e); t^gamma is 2^(gamma*log2(t)).  On every winrate of     *)
(* the families below the channels are the ones the doubles give.          *)
(***************************************************************************)
ColorOne == 32768
Log2eQ == 47274               \* log2(e) * ColorOne
\* 2^-(2^-i) * ColorOne for i = 1..15
Exp2Coef == <<23170, 27554, 30048, 31379, 32066, 32415, 32591, 32679, 32724,
              32746, 32757, 32762, 32765, 32767, 32767>>
RoundDiv(a, b) == (a + b \div 2) \div b
RECURSIVE Exp2Frac(_, _, _)
Exp2Frac(f, i, acc) ==
    IF i > 15 THEN acc
    ELSE Exp2Frac(f, i + 1,
                  IF (f \div Pow2(15 - i)) % 2 = 1
                  THEN RoundDiv(acc * Exp2Coef[i], ColorOne) ELSE acc)
\* 2^-(y / ColorOne) * ColorOne
Exp2Neg(y) ==
    LET n == y \div ColorOne
    IN IF n >= 30 THEN 0
       ELSE RoundDiv(Exp2Frac(y % ColorOne, 1, ColorOne), Pow2(n))
\* -log2(t / ColorOne) * ColorOne, for 0 < t <= ColorOne
NegLog2(t) ==
    LET s == 15 - FloorLog2(t)
    IN s * ColorOne - LogFrac((t * Pow2(s)) \div 2, 15)
\* math.tanh(k * u), clamped to 0..1
TanhQ(k10, u) ==
    LET y == (((2 * k10 * u) \div 10) * Log2eQ) \div 1000
        e == Exp2Neg(y)
    IN clamp(RoundDiv((ColorOne - e) * ColorOne, ColorOne + e), 0, ColorOne)
\* t ** gamma
PowQ(t, g100) == IF t = 0 THEN 0 ELSE Exp2Neg(RoundDiv(g100 * NegLog2(t), 100))
\* round(255 + (0 - 255) * t): the channel that the blend moves
BlendChannel(c) == RoundDiv(255 * (ColorOne - PowQ(TanhQ(c.k, c.u), c.gamma)), ColorOne)
\* yellow (255, 255, 0) towards green (0, 255, 0) or red (255, 0, 0)
RGBOf(c) ==
    IF c.toward = "green" THEN <<BlendChannel(c), 255, 0>>
                          ELSE <<255, BlendChannel(c), 0>>

(***************************************************************************)
(* Coordinates.  cos(angle) * radius and sin(angle) * radius are kept as   *)
(* the radius and the angle in turns, num/den in lowest terms; dy is what  *)
(* is subtracted from y afterwards, in units of 10^-5 pixel.  The literal  *)
(* 0 of the page script is radius 0.                                       *)
(***************************************************************************)
CosTimes(r, num, den) ==
    LET g == Gcd(num, den)
    IN [r |-> r, num |-> num \div g, den |-> den \div g]
SinTimes(r, num, den) ==
    LET g == Gcd(num, den)
    IN [r |-> r, num |-> num \div g, den |-> den \div g, dy |-> 0]
Zero == [r |-> 0, num |-> 0, den |-> 1]
ZeroY == [r |-> 0, num |-> 0, den |-> 1, dy |-> 0]
\* y - off, and x or y of a node that has none (undefined)
Minus(y, off) == [y EXCEPT !.dy = y.dy + off]
NoCoord == [r |-> 0 - 1, num |-> 0, den |-> 1]
NoCoordY == [r |-> 0 - 1, num |-> 0, den |-> 1, dy |-> 0]

(***************************************************************************)
(* graph_build.py compute_radial_positions.  ordered is the archetype      *)
(* table as sort_values returns it; the result maps a name to [x, y].      *)
(***************************************************************************)
\* the rings counted from the outside
RingIndexFromOutside(m, vmin, vmax) ==
    LET a == LogQ(vmin)
        b == LogQ(vmax)
        num == IF b = a THEN 0 ELSE LogQ(Max2(m, vmin)) - a
        den == IF b = a THEN 1 ELSE b - a
        ring_idx == (2 * num * (RING_COUNT - 1) + den) \div (2 * den)
    IN (RING_COUNT - 1) - clamp(ring_idx, 0, RING_COUNT - 1)
\* lines 142-153: the ring of an archetype with m overall matches
RingIndex(m, vmin, vmax) ==
    LET a == LogQ(vmin)
        b == LogQ(vmax)
        num == IF b = a THEN 0 ELSE LogQ(Max2(m, vmin)) - a
        den == IF b = a THEN 1 ELSE b - a
        \* int(round(t * (RING_COUNT - 1)))
        ring_idx == (2 * num * (RING_COUNT - 1) + den) \div (2 * den)
    IN clamp(ring_idx, 0, RING_COUNT - 1)

\* lines 149-154: ring_groups[ring_idx], in table order
RingGroup(ordered, ring_idx, vmin, vmax) ==
    SelectSeq(ordered, LAMBDA row : RingIndex(row.overall_matches, vmin, vmax) = ring_idx)

compute_radial_positions(ordered) ==
    IF ordered = <<>> THEN <<>>
    ELSE
      LET vmin == Max2(1, SetMin(OverallMatchesColumn(ordered)))
          vmax == Max2(vmin + 1, SetMax(OverallMatchesColumn(ordered)))
          Place(name) ==
            LET m == (CHOOSE i \in DOMAIN ordered : ordered[i].archetype = name)
                ring_idx == RingIndex(ordered[m].overall_matches, vmin, vmax)
                ring_nodes == RingGroup(ordered, ring_idx, vmin, vmax)
                count == Len(ring_nodes)
                i == (CHOOSE j \in DOMAIN ring_nodes : ring_nodes[j].archetype = name) - 1
                radius == RING_RADIUS_BASE + ring_idx * RING_RADIUS_STEP
                \* angle = ring_idx*pi/RING_COUNT + 2*pi*i/count, in turns
                num == ring_idx * count + 2 * Max2(1, RING_COUNT) * i
                den == 2 * Max2(1, RING_COUNT) * count
            IN [x |-> CosTimes(radius, num, den), y |-> SinTimes(radius, num, den)]
      IN [name \in ArchetypeColumn(ordered) |-> Place(name)]

(***************************************************************************)
(* render_html.py _build_dataset: the payload of one dataset.  A node or   *)
(* an edge is a record with one field per key the page script reads; a     *)
(* key the payload does not carry has the value the script reads for it    *)
(* (hidden: falsy, wr_center: undefined).                                  *)
(***************************************************************************)
WrUndefined == 0 - 1          \* wr_center of an edge no focus has encoded yet
ArrowsToDisabled == "to:disabled"      \* {"to": {"enabled": False}}
LABEL_OFFSET_PY == 115        \* line 133: size_val * 1.15, in hundredths
LABEL_GAP == 2800000          \* lines 133, 692: + 28, in units of 10^-5

LabelId(node_id) == "label::" \o node_id

\* G.edges(data=True): by source node in insertion order, then by insertion
RECURSIVE EdgesInAdjacencyOrder(_, _)
EdgesInAdjacencyOrder(G, i) ==
    IF i > Len(G.nodes) THEN <<>>
    ELSE SelectSeq(G.edges, LAMBDA e : e.from = G.nodes[i].id)
            \o EdgesInAdjacencyOrder(G, i + 1)

\* lines 92-121: the entry of a data node
DatasetNode(attrs, positions) ==
    [id |-> attrs.id, base_id |-> "", is_label_node |-> FALSE,
     size |-> attrs.size, matches |-> attrs.matches,
     overall_winrate |-> attrs.overall_winrate,
     x |-> IF attrs.id \in DOMAIN positions THEN positions[attrs.id].x ELSE NoCoord,
     y |-> IF attrs.id \in DOMAIN positions THEN positions[attrs.id].y ELSE NoCoordY,
     fixed |-> attrs.id \in DOMAIN positions,
     hidden |-> FALSE]

\* lines 124-144: the entry of its label node
DatasetLabelNode(attrs, positions) ==
    [id |-> LabelId(attrs.id), base_id |-> attrs.id, is_label_node |-> TRUE,
     size |-> 0, matches |-> 0, overall_winrate |-> NoWinrate,
     x |-> positions[attrs.id].x,
     y |-> Minus(positions[attrs.id].y, attrs.size * LABEL_OFFSET_PY + LABEL_GAP),
     fixed |-> TRUE,
     hidden |-> FALSE]

\* lines 150-166: the entry of the idx-th edge (idx counts from 0)
DatasetEdge(idx, attrs) ==
    [id |-> "e" \o ToString(idx) \o "_" \o attrs.from \o "__" \o attrs.to,
     from |-> attrs.from, to |-> attrs.to,
     width |-> attrs.width, color |-> attrs.color,
     matches |-> attrs.matches, winrate |-> attrs.winrate,
     winrate_from |-> attrs.winrate_from, neutral |-> attrs.neutral,
     arrows |-> IF attrs.neutral THEN ArrowsToDisabled ELSE attrs.arrows,
     hidden |-> FALSE, wr_center |-> WrUndefined]

build_dataset(G, ordered) ==
    LET positions == compute_radial_positions(ordered)
        placed == SelectSeq(G.nodes, LAMBDA attrs : attrs.id \in DOMAIN positions)
        nodes == [i \in DOMAIN G.nodes |-> DatasetNode(G.nodes[i], positions)]
        label_nodes == [i \in DOMAIN placed |-> DatasetLabelNode(placed[i], positions)]
        es == EdgesInAdjacencyOrder(G, 1)
    IN [nodes |-> nodes \o label_nodes,
        edges |-> [i \in DOMAIN es |-> DatasetEdge(i - 1, es[i])]]

(***************************************************************************)
(* The page script (the JavaScript render_html.py injects).  nodes and     *)
(* edges are the two vis.DataSet collections, as sequences of items in     *)
(* insertion order; get() hands out copies and update() merges by id.      *)
(***************************************************************************)
ALL == "__all__"              \* the filter value of the un-focused view
OUT_MIN == 600                \* edgeWidthScale, line 648
OUT_MAX == 10000              \* edgeWidthScale, line 649
LABEL_OFFSET_JS == 120        \* lines 692, 1176, 1200: size * 1.2, in hundredths
FOCUS_RADIUS == 760           \* layoutVisibleNodesCentered, line 1168

ItemIds(items) == {items[i].id : i \in DOMAIN items}
ItemById(items, id) == items[CHOOSE i \in DOMAIN items : items[i].id = id]

\* lines 647-658
edgeWidthScale(matches, minM, maxM) ==
    IF matches <= 0 THEN OUT_MIN
    ELSE IF maxM <= minM THEN (OUT_MIN + OUT_MAX) \div 2
    ELSE LET num == LogQ(matches) - LogQ(minM)
             den == LogQ(maxM) - LogQ(minM)
             x == clamp(num, 0, den)
         IN OUT_MIN + (x * (OUT_MAX - OUT_MIN)) \div den

\* n.x || 0
OrZero(c) == IF c.r < 0 THEN [c EXCEPT !.r = 0] ELSE c
\* (baseSizes[id] || 20) * 1.2 + 28
LabelOffset(baseSizes, id) ==
    LET s == IF id \in DOMAIN baseSizes /\ baseSizes[id] # 0
             THEN baseSizes[id] ELSE 20000
    IN s * LABEL_OFFSET_JS + LABEL_GAP

\* lines 1107-1133
initBaseNodeState(nodeList) ==
    [id \in ItemIds(nodeList) |->
        LET nn == ItemById(nodeList, id) IN [x |-> nn.x, y |-> nn.y, fixed |-> nn.fixed]]
initBaseSizes(nodeList) ==
    [id \in {n \in ItemIds(nodeList) : ~ItemById(nodeList, n).is_label_node} |->
        LET nn == ItemById(nodeList, id) IN IF nn.size # 0 THEN nn.size ELSE 10000]
initBaseEdgeState(edgeList) ==
    [id \in ItemIds(edgeList) |->
        LET e == ItemById(edgeList, id)
        IN [from |-> e.from, to |-> e.to, color |-> e.color,
            arrows |-> e.arrows, width |-> e.width]]

\* lines 661-697 and 709: the nodes after showAll
showAllNodes(nodesArray, baseNodeState, baseSizes) ==
    LET dataNodeIds == {nodesArray[i].id : i \in {j \in DOMAIN nodesArray :
                                                    ~nodesArray[j].is_label_node}}
        Restore(n0) ==
            IF n0.is_label_node
            THEN [n0 EXCEPT !.hidden = n0.base_id \notin dataNodeIds]
            ELSE IF n0.id \in DOMAIN baseNodeState
                 THEN [n0 EXCEPT !.hidden = FALSE,
                                 !.fixed = baseNodeState[n0.id].fixed,
                                 !.x = baseNodeState[n0.id].x,
                                 !.y = baseNodeState[n0.id].y]
                 ELSE [n0 EXCEPT !.hidden = FALSE]
        pass1 == [i \in DOMAIN nodesArray |-> Restore(nodesArray[i])]
        basePos == [id \in dataNodeIds |->
                        LET n0 == ItemById(pass1, id)
                        IN [x |-> OrZero(n0.x), y |-> OrZero(n0.y)]]
        Label(lbl) ==
            IF ~lbl.is_label_node THEN lbl
            ELSE IF lbl.base_id \in DOMAIN basePos
                 THEN [lbl EXCEPT !.hidden = FALSE,
                                  !.x = basePos[lbl.base_id].x,
                                  !.y = Minus(basePos[lbl.base_id].y,
                                              LabelOffset(baseSizes, lbl.base_id)),
                                  !.fixed = TRUE]
                 ELSE [lbl EXCEPT !.hidden = TRUE]
    IN [i \in DOMAIN pass1 |-> Label(pass1[i])]

\* the endpoints of an edge are not put back
showAllEdgesKeepDirection(edgesArray, baseEdgeState) ==
    LET Restore(e) ==
            IF e.id \in DOMAIN baseEdgeState
            THEN [e EXCEPT !.hidden = FALSE,
                           !.color = baseEdgeState[e.id].color,
                           !.arrows = baseEdgeState[e.id].arrows,
                           !.width = baseEdgeState[e.id].width]
            ELSE [e EXCEPT !.hidden = FALSE]
    IN [i \in DOMAIN edgesArray |-> Restore(edgesArray[i])]
\* lines 698-708 and 710: the edges after showAll
showAllEdges(edgesArray, baseEdgeState) ==
    LET Restore(e) ==
            IF e.id \in DOMAIN baseEdgeState
            THEN [e EXCEPT !.hidden = FALSE,
                           !.from = baseEdgeState[e.id].from,
                           !.to = baseEdgeState[e.id].to,
                           !.color = baseEdgeState[e.id].color,
                           !.arrows = baseEdgeState[e.id].arrows,
                           !.width = baseEdgeState[e.id].width]
            ELSE [e EXCEPT !.hidden = FALSE]
    IN [i \in DOMAIN edgesArray |-> Restore(edgesArray[i])]

\* network.getConnectedEdges / getConnectedNodes: by the endpoints an edge
\* has now, whether it is hidden or not
getConnectedEdges(edgesArray, nodeId) ==
    {edgesArray[i].id : i \in {j \in DOMAIN edgesArray :
        edgesArray[j].from = nodeId \/ edgesArray[j].to = nodeId}}
getConnectedNodes(edgesArray, nodeId) ==
    {IF edgesArray[i].to = nodeId THEN edgesArray[i].from ELSE edgesArray[i].to :
        i \in {j \in DOMAIN edgesArray :
                 edgesArray[j].from = nodeId \/ edgesArray[j].to = nodeId}}

\* a node that is hidden stays hidden
hideUnrelatedNodesNeverShow(nodesArray, edgesArray, nodeId) ==
    LET keepIds == {nodeId} \cup getConnectedNodes(edgesArray, nodeId)
    IN [i \in DOMAIN nodesArray |->
          IF nodesArray[i].is_label_node
          THEN [nodesArray[i] EXCEPT !.hidden = @ \/ nodesArray[i].base_id \notin keepIds]
          ELSE [nodesArray[i] EXCEPT !.hidden = @ \/ nodesArray[i].id \notin keepIds]]
\* the labels are all left as they are
hideUnrelatedNodesKeepLabels(nodesArray, edgesArray, nodeId) ==
    LET keepIds == {nodeId} \cup getConnectedNodes(edgesArray, nodeId)
    IN [i \in DOMAIN nodesArray |->
          IF nodesArray[i].is_label_node
          THEN nodesArray[i]
          ELSE [nodesArray[i] EXCEPT !.hidden = nodesArray[i].id \notin keepIds]]
\* lines 723-749: the hidden flags showRelations sets
hideUnrelatedNodes(nodesArray, edgesArray, nodeId) ==
    LET keepIds == {nodeId} \cup getConnectedNodes(edgesArray, nodeId)
    IN [i \in DOMAIN nodesArray |->
          IF nodesArray[i].is_label_node
          THEN [nodesArray[i] EXCEPT !.hidden = nodesArray[i].base_id \notin keepIds]
          ELSE [nodesArray[i] EXCEPT !.hidden = nodesArray[i].id \notin keepIds]]
\* an edge that is hidden stays hidden
hideUnrelatedEdgesNeverShow(edgesArray, nodeId) ==
    LET connectedEdges == getConnectedEdges(edgesArray, nodeId)
    IN [i \in DOMAIN edgesArray |->
          [edgesArray[i] EXCEPT !.hidden = @ \/ edgesArray[i].id \notin connectedEdges]]
\* lines 743-746
hideUnrelatedEdges(edgesArray, nodeId) ==
    LET connectedEdges == getConnectedEdges(edgesArray, nodeId)
    IN [i \in DOMAIN edgesArray |->
          [edgesArray[i] EXCEPT !.hidden = edgesArray[i].id \notin connectedEdges]]

\* Array.prototype.sort with (b.matches || 0) - (a.matches || 0): stable
RECURSIVE InsertByMatchesDesc(_, _)
InsertByMatchesDesc(sorted, n) ==
    IF sorted = <<>> THEN <<n>>
    ELSE IF Head(sorted).matches >= n.matches
         THEN <<Head(sorted)>> \o InsertByMatchesDesc(Tail(sorted), n)
         ELSE <<n>> \o sorted
RECURSIVE SortByMatchesDesc(_)
SortByMatchesDesc(s) ==
    IF s = <<>> THEN <<>>
    ELSE InsertByMatchesDesc(SortByMatchesDesc(SubSeq(s, 1, Len(s) - 1)), s[Len(s)])

\* nodes.update(items): merge x, y, fixed (and hidden for a label) into the
\* item of that id; an id the DataSet does not hold is added
RECURSIVE UpdateNodes(_, _, _)
UpdateNodes(nodeList, updates, isLabel) ==
    IF updates = <<>> THEN nodeList
    ELSE LET u == Head(updates)
             merged ==
               IF u.id \in ItemIds(nodeList)
               THEN [i \in DOMAIN nodeList |->
                       IF nodeList[i].id # u.id THEN nodeList[i]
                       ELSE [nodeList[i] EXCEPT
                               !.x = u.x, !.y = u.y, !.fixed = TRUE,
                               !.hidden = IF isLabel THEN FALSE ELSE @]]
               ELSE Append(nodeList,
                      [id |-> u.id, base_id |-> "", is_label_node |-> FALSE,
                       size |-> 0, matches |-> 0, overall_winrate |-> NoWinrate,
                       x |-> u.x, y |-> u.y, fixed |-> TRUE, hidden |-> FALSE])
         IN UpdateNodes(merged, Tail(updates), isLabel)

\* lines 1135-1208
layoutVisibleNodesCentered(nodeList, baseSizes, centerId) ==
    LET visible == SelectSeq(nodeList, LAMBDA nn : ~nn.hidden /\ ~nn.is_label_node)
        others == SortByMatchesDesc(SelectSeq(visible, LAMBDA nn : nn.id # centerId))
        total == Len(others)
        updates ==
            <<[id |-> centerId, x |-> Zero, y |-> ZeroY]>> \o
            [idx \in DOMAIN others |->
                [id |-> others[idx].id,
                 x |-> CosTimes(FOCUS_RADIUS, idx - 1, total),
                 y |-> SinTimes(FOCUS_RADIUS, idx - 1, total)]]
        labelUpdates ==
            [k \in DOMAIN updates |->
                [id |-> LabelId(updates[k].id),
                 x |-> updates[k].x,
                 y |-> Minus(updates[k].y, LabelOffset(baseSizes, updates[k].id))]]
    IN IF centerId \notin ItemIds(visible) THEN nodeList
       ELSE UpdateNodes(UpdateNodes(nodeList, updates, FALSE), labelUpdates, TRUE)

\* the width scale is taken over every edge of the dataset
applyCenterEdgeEncodingGlobalScale(edgesArray, centerId) ==
    LET incident == {j \in DOMAIN edgesArray :
                        /\ ~edgesArray[j].hidden
                        /\ (edgesArray[j].from = centerId \/ edgesArray[j].to = centerId)}
        counted == {edgesArray[j].matches : j \in {i \in DOMAIN edgesArray :
                                                     edgesArray[i].matches > 0}}
        minM == IF counted = {} THEN 0 ELSE SetMin(counted)
        maxM == IF counted = {} THEN 1 ELSE SetMax(counted)
        Encode(e) ==
          LET win == IF e.neutral THEN 500
                     ELSE IF e.from = centerId THEN e.winrate_from
                     ELSE 1000 - e.winrate_from
              other == IF e.from = centerId THEN e.to ELSE e.from
              e1 == [e EXCEPT !.width = edgeWidthScale(e.matches, minM, maxM),
                              !.color = winrateColor(win),
                              !.wr_center = win]
          IN IF AbsDiffHalfLeEps(win)
             THEN [e1 EXCEPT !.from = centerId, !.to = other, !.arrows = ""]
             ELSE IF win > 500
             THEN [e1 EXCEPT !.from = centerId, !.to = other, !.arrows = "to"]
             ELSE [e1 EXCEPT !.from = other, !.to = centerId, !.arrows = "to"]
    IN [j \in DOMAIN edgesArray |->
          IF j \in incident THEN Encode(edgesArray[j]) ELSE edgesArray[j]]
\* the perspective winrate is written over the stored one
applyCenterEdgeEncodingOverwrite(edgesArray, centerId) ==
    LET Encode(e) ==
          IF e.hidden \/ (e.from # centerId /\ e.to # centerId) THEN e
          ELSE LET win == IF e.neutral THEN 500
                          ELSE IF e.from = centerId THEN e.winrate_from
                          ELSE 1000 - e.winrate_from
               IN [e EXCEPT !.winrate_from = win, !.wr_center = win,
                            !.color = winrateColor(win)]
    IN [j \in DOMAIN edgesArray |-> Encode(edgesArray[j])]
\* every edge with an arrowhead points away from the center
applyCenterEdgeEncodingAlwaysOutward(edgesArray, centerId) ==
    LET incident == {j \in DOMAIN edgesArray :
                        /\ ~edgesArray[j].hidden
                        /\ (edgesArray[j].from = centerId \/ edgesArray[j].to = centerId)}
        counted == {edgesArray[j].matches : j \in {i \in incident :
                                                     edgesArray[i].matches > 0}}
        minM == IF counted = {} THEN 0 ELSE SetMin(counted)
        maxM == IF counted = {} THEN 1 ELSE SetMax(counted)
        Encode(e) ==
          LET win == IF e.neutral THEN 500
                     ELSE IF e.from = centerId THEN e.winrate_from
                     ELSE 1000 - e.winrate_from
              other == IF e.from = centerId THEN e.to ELSE e.from
              e1 == [e EXCEPT !.width = edgeWidthScale(e.matches, minM, maxM),
                              !.color = winrateColor(win),
                              !.wr_center = win]
          IN IF AbsDiffHalfLeEps(win)
             THEN [e1 EXCEPT !.from = centerId, !.to = other, !.arrows = ""]
             ELSE IF win > 500
             THEN [e1 EXCEPT !.from = centerId, !.to = other, !.arrows = "to"]
             ELSE [e1 EXCEPT !.from = centerId, !.to = other, !.arrows = "to"]
    IN [j \in DOMAIN edgesArray |->
          IF j \in incident THEN Encode(edgesArray[j]) ELSE edgesArray[j]]

\* an edge towards the center loses its arrowhead
applyCenterEdgeEncodingNoArrowhead(edgesArray, centerId) ==
    LET incident == {j \in DOMAIN edgesArray :
                        /\ ~edgesArray[j].hidden
                        /\ (edgesArray[j].from = centerId \/ edgesArray[j].to = centerId)}
        counted == {edgesArray[j].matches : j \in {i \in incident :
                                                     edgesArray[i].matches > 0}}
        minM == IF counted = {} THEN 0 ELSE SetMin(counted)
        maxM == IF counted = {} THEN 1 ELSE SetMax(counted)
        Encode(e) ==
          LET win == IF e.neutral THEN 500
                     ELSE IF e.from = centerId THEN e.winrate_from
                     ELSE 1000 - e.winrate_from
              other == IF e.from = centerId THEN e.to ELSE e.from
              e1 == [e EXCEPT !.width = edgeWidthScale(e.matches, minM, maxM),
                              !.color = winrateColor(win),
                              !.wr_center = win]
          IN IF AbsDiffHalfLeEps(win)
             THEN [e1 EXCEPT !.from = centerId, !.to = other, !.arrows = ""]
             ELSE IF win > 500
             THEN [e1 EXCEPT !.from = centerId, !.to = other, !.arrows = "to"]
             ELSE [e1 EXCEPT !.from = other, !.to = centerId, !.arrows = ""]
    IN [j \in DOMAIN edgesArray |->
          IF j \in incident THEN Encode(edgesArray[j]) ELSE edgesArray[j]]

\* lines 1210-1271.  win is 1.0 - winrate_from or winrate_from itself, and
\* |win - 0.5| is in both cases the exact distance of the scraped winrate
\* from one half, so the tie test rounds as the builder's does.
applyCenterEdgeEncoding(edgesArray, centerId) ==
    LET incident == {j \in DOMAIN edgesArray :
                        /\ ~edgesArray[j].hidden
                        /\ (edgesArray[j].from = centerId \/ edgesArray[j].to = centerId)}
        counted == {edgesArray[j].matches : j \in {i \in incident :
                                                     edgesArray[i].matches > 0}}
        minM == IF counted = {} THEN 0 ELSE SetMin(counted)
        maxM == IF counted = {} THEN 1 ELSE SetMax(counted)
        Encode(e) ==
          LET win == IF e.neutral THEN 500
                     ELSE IF e.from = centerId THEN e.winrate_from
                     ELSE 1000 - e.winrate_from
              other == IF e.from = centerId THEN e.to ELSE e.from
              e1 == [e EXCEPT !.width = edgeWidthScale(e.matches, minM, maxM),
                              !.color = winrateColor(win),
                              !.wr_center = win]
          IN IF AbsDiffHalfLeEps(win)
             THEN [e1 EXCEPT !.from = centerId, !.to = other, !.arrows = ""]
             ELSE IF win > 500
             THEN [e1 EXCEPT !.from = centerId, !.to = other, !.arrows = "to"]
             ELSE [e1 EXCEPT !.from = other, !.to = centerId, !.arrows = "to"]
    IN [j \in DOMAIN edgesArray |->
          IF j \in incident THEN Encode(edgesArray[j]) ELSE edgesArray[j]]

\* lines 1308-1319: the comparator of the side panel, as "a sorts before b"
RowBefore(a, b, sortKey, sortDir) ==
    IF sortKey = "deck"
    THEN IF sortDir = "asc" THEN NameRank(a.deck) < NameRank(b.deck)
                            ELSE NameRank(a.deck) > NameRank(b.deck)
    ELSE LET av == IF sortKey = "winrate" THEN a.winrate ELSE a.matches
             bv == IF sortKey = "winrate" THEN b.winrate ELSE b.matches
         IN IF sortDir = "asc" THEN av < bv ELSE bv < av

RECURSIVE InsertRow(_, _, _, _)
InsertRow(sorted, r, sortKey, sortDir) ==
    IF sorted = <<>> THEN <<r>>
    ELSE IF RowBefore(r, Head(sorted), sortKey, sortDir)
         THEN <<r>> \o sorted
         ELSE <<Head(sorted)>> \o InsertRow(Tail(sorted), r, sortKey, sortDir)
RECURSIVE SortRows(_, _, _)
SortRows(rows, sortKey, sortDir) ==
    IF rows = <<>> THEN <<>>
    ELSE InsertRow(SortRows(SubSeq(rows, 1, Len(rows) - 1), sortKey, sortDir),
                   rows[Len(rows)], sortKey, sortDir)

\* window.__tableSortKey || 'matches', window.__tableSortDir || 'desc'
SortKeyOr(k) == IF k = "" THEN "matches" ELSE k
SortDirOr(d) == IF d = "" THEN "desc" ELSE d

\* a row for every edge of the dataset, incident and shown or not
renderMatchupsEveryEdge(edgesArray, nodeId, sortKey, sortDir) ==
    LET shown == edgesArray
        Row(e) ==
          [deck |-> IF e.from = nodeId THEN e.to ELSE e.from,
           winrate |-> IF e.wr_center # WrUndefined THEN e.wr_center
                       ELSE IF e.neutral THEN 500
                       ELSE IF e.from = nodeId THEN e.winrate
                       ELSE 1000 - e.winrate,
           matches |-> e.matches]
    IN SortRows([i \in DOMAIN shown |-> Row(shown[i])],
                SortKeyOr(sortKey), SortDirOr(sortDir))
\* every row carries the stored winrate of its edge
renderMatchupsStoredWinrate(edgesArray, nodeId, sortKey, sortDir) ==
    LET shown == SelectSeq(edgesArray, LAMBDA e :
                    (e.from = nodeId \/ e.to = nodeId) /\ ~e.hidden)
        Row(e) ==
          [deck |-> IF e.from = nodeId THEN e.to ELSE e.from,
           winrate |-> e.winrate,
           matches |-> e.matches]
    IN SortRows([i \in DOMAIN shown |-> Row(shown[i])],
                SortKeyOr(sortKey), SortDirOr(sortDir))
\* lines 1273-1336: the rows of the side panel
renderMatchups(edgesArray, nodeId, sortKey, sortDir) ==
    LET shown == SelectSeq(edgesArray, LAMBDA e :
                    (e.from = nodeId \/ e.to = nodeId) /\ ~e.hidden)
        Row(e) ==
          [deck |-> IF e.from = nodeId THEN e.to ELSE e.from,
           winrate |-> IF e.wr_center # WrUndefined THEN e.wr_center
                       ELSE IF e.neutral THEN 500
                       ELSE IF e.from = nodeId THEN e.winrate
                       ELSE 1000 - e.winrate,
           matches |-> e.matches]
    IN SortRows([i \in DOMAIN shown |-> Row(shown[i])],
                SortKeyOr(sortKey), SortDirOr(sortDir))

(***************************************************************************)
(* scrape.py parse_cell and parse_page.  The page is the winrates table:   *)
(* the names of the opponent columns (cols) and one row (tr) per           *)
(* archetype, with its data-name, data-winrate and data-matches and one    *)
(* cell (td) per opponent column.  A td is its data-winrate attribute, in  *)
(* percent, and the number in its matches-number div; NoAttr stands for    *)
(* an attribute or a div that is not there.                                *)
(***************************************************************************)
NoAttr == 0 - 1

\* lines 47-85: Cell(winrate, matches)
parse_cell(td) ==
    IF td.data_winrate = NoAttr
    THEN [winrate |-> NoWinrate, matches |-> 0]
    ELSE [winrate |-> td.data_winrate * 10,
          matches |-> IF td.matches_number = NoAttr THEN 0 ELSE td.matches_number]

\* every cell is taken for a matchup
CellHasDataAlways(cell) == TRUE
\* lines 215-216: a cell without winrate or with zero matches is skipped
CellHasData(cell) == ~(cell.winrate = NoWinrate \/ cell.matches = 0)

\* lines 210-227: the matchup rows of one tr
TrMatchups(tr, cols) ==
    LET n == Min2(Len(cols), Len(tr.tds))
        cells == [j \in 1..n |-> parse_cell(tr.tds[j])]
        kept == SelectSeq([j \in 1..n |-> j], LAMBDA j : CellHasData(cells[j]))
    IN [i \in DOMAIN kept |->
          [a |-> tr.data_name, b |-> cols[kept[i]],
           winrate_a_vs_b |-> cells[kept[i]].winrate,
           matches |-> cells[kept[i]].matches]]

RECURSIVE PageMatchups(_, _, _)
PageMatchups(trs, cols, i) ==
    IF i > Len(trs) THEN <<>>
    ELSE TrMatchups(trs[i], cols) \o PageMatchups(trs, cols, i + 1)

\* lines 175-229
parse_page(page) ==
    [archetypes_df |->
        [i \in DOMAIN page.trs |->
            [archetype |-> page.trs[i].data_name,
             overall_matches |-> IF page.trs[i].data_matches = NoAttr THEN 0
                                 ELSE page.trs[i].data_matches,
             overall_winrate |-> IF page.trs[i].data_winrate = NoAttr THEN NoWinrate
                                 ELSE page.trs[i].data_winrate]],
     matchups_df |-> PageMatchups(page.trs, page.cols, 1)]

(***************************************************************************)
(* State.                                                                  *)
(***************************************************************************)
VARIABLES
    scaled,             \* the last call of a scale function (<<>> = none yet)
    html,               \* range key -> the page fetch_html downloaded for it
    TOP_N_ARCHETYPES,   \* config.py:66, the cutoff the run is configured with
    tables,             \* range key -> the tables main() got for it
    todo,               \* range keys main() still has to build, in order
    graphs_by_format,   \* range key -> [G, df]: main()'s registry (one format)
    datasetsByFormat,   \* range key -> payload, as render_pyvis wrote it in the page
    defaultRangeKey,    \* the default range key written in the page ("" = no page)
    currentRangeKey,    \* the range the page shows ("" = page not opened)
    nodes,              \* vis.DataSet of the nodes
    edges,              \* vis.DataSet of the edges
    baseNodeState,      \* node id -> [x, y, fixed] of initBaseState
    baseEdgeState,      \* edge id -> [from, to, color, arrows, width]
    baseSizes,          \* data node id -> size
    filterValue,        \* filterSelect.value
    tableSortKey,       \* window.__tableSortKey ("" = undefined)
    tableSortDir,       \* window.__tableSortDir ("" = undefined)
    matchupBody,        \* the rows of the side panel
    in_ci,              \* main(): GITHUB_ACTIONS is "true"
    outcome,            \* <<format, range>> -> what fetching and loading it gives
    format_pos,         \* main(): index of the format the outer loop is at (0 = no run)
    range_pos,          \* main(): index of the range the inner loop is at
    graphs_for_format,  \* main(): range key -> how the range of this format was got
    registry,           \* main(): graphs_by_format over all formats, format -> ranges
    default_format_key, \* the default format key handed to render_pyvis
    default_range_key,  \* the default range key handed to render_pyvis
    mainResult          \* how main() ended: the exception raised, or "rendered"

mainVars == <<in_ci, outcome, format_pos, range_pos, graphs_for_format, registry,
              default_format_key, default_range_key, mainResult>>
buildVars == <<scaled, html, TOP_N_ARCHETYPES, tables, todo, graphs_by_format, mainVars>>
pageVars == <<datasetsByFormat, defaultRangeKey>>
viewVars == <<currentRangeKey, nodes, edges, baseNodeState, baseEdgeState, baseSizes,
              filterValue, tableSortKey, tableSortDir, matchupBody>>
vars == <<buildVars, pageVars, viewVars>>

RangeKeys == <<"last180days", "last60days">>
\* config.py:5-25, the first two formats
FormatKeys == <<"modern", "standard">>
\* config.py:27
DEFAULT_FORMAT_KEY == "modern"

\* main() is not followed across formats: its loop variables stay as they are
MainIdle ==
    /\ in_ci = FALSE
    /\ outcome = <<>>
    /\ format_pos = 0
    /\ range_pos = 0
    /\ graphs_for_format = <<>>
    /\ registry = <<>>
    /\ default_format_key = ""
    /\ default_range_key = ""
    /\ mainResult = "idle"

(***************************************************************************)
(* Input families.                                                         *)
(***************************************************************************)
\* matchup cells <<winrate, matches>> of the builder family
BuildCells == {<<700, 100>>, <<300, 10>>, <<504, 10>>, <<505, 1000>>, <<700, 0>>}
\* the ordered pairs a row may name: every mirrored pair and one self pair
BuildPairs == {<<a, b>> \in Names \X Names : a # b \/ a = "A"}
BuildRows == {[a |-> p[1], b |-> p[2], winrate_a_vs_b |-> c[1], matches |-> c[2]] :
                p \in BuildPairs, c \in BuildCells}

SeqsUpTo(S, n) == UNION {[1..k -> S] : k \in 0..n}

\* archetype cells <<overall_matches, overall_winrate>>
ArchCells == {<<100, 550>>, <<50, NoWinrate>>, <<50, 520>>, <<10, 480>>}
ArchTables ==
    UNION {{[i \in 1..k |-> [archetype |-> NameSeq[i],
                             overall_matches |-> c[i][1],
                             overall_winrate |-> c[i][2]]] :
              c \in [1..k -> ArchCells]} : k \in 0..Len(NameSeq)}
ArchTableFixed ==
    <<[archetype |-> "A", overall_matches |-> 100, overall_winrate |-> 550],
      [archetype |-> "B", overall_matches |-> 50, overall_winrate |-> NoWinrate],
      [archetype |-> "C", overall_matches |-> 10, overall_winrate |-> 480]>>

TopNs == 0..MaxTopN

\* the cutoff family: every archetype table, short matchup tables
TopNCells == {<<700, 100>>, <<504, 10>>}
TopNRows == {[a |-> p[1], b |-> p[2], winrate_a_vs_b |-> c[1], matches |-> c[2]] :
                p \in BuildPairs, c \in TopNCells}

\* the tie family: one row A-B or B-A with a winrate around one half
TieWinrates == (490..510) \cup {0, 300, 700, 1000}
TieRows == {[a |-> p[1], b |-> p[2], winrate_a_vs_b |-> w, matches |-> 10] :
                p \in {<<"A", "B">>, <<"B", "A">>}, w \in TieWinrates}

OneTable(archs, matchups) ==
    {[k \in {DEFAULT_RANGE_KEY} |-> [archetypes_df |-> a, matchups_df |-> m]] :
        a \in archs, m \in matchups}

InitMain(family, topNs) ==
    /\ scaled = <<>>
    /\ html = <<>>
    /\ TOP_N_ARCHETYPES \in topNs
    /\ tables \in family
    /\ todo = SelectSeq(RangeKeys, LAMBDA k : k \in DOMAIN tables)
    /\ graphs_by_format = <<>>
    /\ datasetsByFormat = <<>>
    /\ defaultRangeKey = ""
    /\ currentRangeKey = ""
    /\ nodes = <<>>
    /\ edges = <<>>
    /\ baseNodeState = <<>>
    /\ baseEdgeState = <<>>
    /\ baseSizes = <<>>
    /\ filterValue = ""
    /\ tableSortKey = ""
    /\ tableSortDir = ""
    /\ matchupBody = <<>>
    /\ MainIdle

(***************************************************************************)
(* main(), main.py:72-107: build the graph of the next range.              *)
(***************************************************************************)
BuildGraph ==
    /\ todo # <<>>
    /\ todo[1] \in DOMAIN tables
    /\ LET k == todo[1]
       IN \E arch \in SortValuesDesc(tables[k].archetypes_df) :
            graphs_by_format' =
                [j \in DOMAIN graphs_by_format \cup {k} |->
                    IF j = k
                    THEN [G |-> build_graph(arch, tables[k].matchups_df,
                                            TOP_N_ARCHETYPES),
                          df |-> arch]
                    ELSE graphs_by_format[j]]
    /\ todo' = Tail(todo)
    /\ UNCHANGED <<scaled, html, TOP_N_ARCHETYPES, tables, mainVars, pageVars, viewVars>>

\* main(), main.py:95-100: the page of the next range is parsed
ParsePage ==
    /\ todo # <<>>
    /\ todo[1] \in DOMAIN html
    /\ todo[1] \notin DOMAIN tables
    /\ tables' = [k \in DOMAIN tables \cup {todo[1]} |->
                    IF k = todo[1] THEN parse_page(html[k]) ELSE tables[k]]
    /\ UNCHANGED <<scaled, html, TOP_N_ARCHETYPES, todo, graphs_by_format, mainVars,
                   pageVars, viewVars>>

Init == InitMain(OneTable({ArchTableFixed}, SeqsUpTo(BuildRows, MaxRows)), {0, 2})
Next == BuildGraph
Spec == Init /\ [][Next]_vars

InitTopN == InitMain(OneTable(ArchTables, SeqsUpTo(TopNRows, MaxRowsTopN)), TopNs)
SpecTopN == InitTopN /\ [][Next]_vars

\* the scrape family: the page of the three archetypes in which the first
\* MaxPageCells cells off the diagonal (in the order of PageSlots) hold any of
\* the PageCells and every other cell is the no-data cell
MaxPageCells == 3
NoDataTd == [data_winrate |-> NoAttr, matches_number |-> NoAttr]
PageCells == {NoDataTd,
              [data_winrate |-> 70, matches_number |-> 100],
              [data_winrate |-> 30, matches_number |-> 10],
              [data_winrate |-> 50, matches_number |-> NoAttr],
              [data_winrate |-> 60, matches_number |-> 0]}
PageSlots == <<(<<"A", "B">>), (<<"B", "A">>), (<<"A", "C">>),
               (<<"C", "A">>), (<<"B", "C">>), (<<"C", "B">>)>>
PageOf(f) ==
    [cols |-> NameSeq,
     trs |-> [i \in DOMAIN ArchTableFixed |->
                [data_name |-> ArchTableFixed[i].archetype,
                 data_winrate |-> IF ArchTableFixed[i].overall_winrate = NoWinrate
                                  THEN NoAttr ELSE ArchTableFixed[i].overall_winrate,
                 data_matches |-> ArchTableFixed[i].overall_matches,
                 tds |-> [j \in DOMAIN NameSeq |->
                            LET slot == {q \in DOMAIN f :
                                           PageSlots[q] = <<ArchTableFixed[i].archetype,
                                                            NameSeq[j]>>}
                            IN IF slot = {} THEN NoDataTd
                               ELSE f[CHOOSE q \in slot : TRUE]]]]]
Pages == {PageOf(f) : f \in [1..Min2(MaxPageCells, Len(PageSlots)) -> PageCells]}

InitScrape ==
    /\ scaled = <<>>
    /\ html \in {[k \in {DEFAULT_RANGE_KEY} |-> page] : page \in Pages}
    /\ TOP_N_ARCHETYPES = 0
    /\ tables = <<>>
    /\ todo = SelectSeq(RangeKeys, LAMBDA k : k \in DOMAIN html)
    /\ graphs_by_format = <<>>
    /\ datasetsByFormat = <<>>
    /\ defaultRangeKey = ""
    /\ currentRangeKey = ""
    /\ nodes = <<>>
    /\ edges = <<>>
    /\ baseNodeState = <<>>
    /\ baseEdgeState = <<>>
    /\ baseSizes = <<>>
    /\ filterValue = ""
    /\ tableSortKey = ""
    /\ tableSortDir = ""
    /\ matchupBody = <<>>
    /\ MainIdle
NextScrape ==
    \/ ParsePage
    \/ BuildGraph
SpecScrape == InitScrape /\ [][NextScrape]_vars

\* the scale family: a scale function is called with value, vmin <= vmax in
\* -1..MaxScaleInput and one of the output ranges (thousandths)
MaxScaleInput == 4
MaxSwitchRows == 1    \* rows of the default range's matchup table in the switch family
ScaleInputs == (0 - 1)..MaxScaleInput
ScaleRanges == {<<6000, 40000>>, <<200, 16000>>, <<5000, 5000>>}
ScaleFns == {"scale_log", "scale_sqrt", "scale_power"}
ScaleRaises(fn, value, vmin, vmax) ==
    IF fn = "scale_log" THEN scale_log_raises(value, vmin, vmax)
    ELSE IF fn = "scale_sqrt" THEN scale_sqrt_raises(value, vmin, vmax)
    ELSE FALSE
ScaleResult(fn, value, vmin, vmax, out_min, out_max) ==
    IF fn = "scale_log" THEN scale_log(value, vmin, vmax, out_min, out_max)
    ELSE IF fn = "scale_sqrt" THEN scale_sqrt(value, vmin, vmax, out_min, out_max)
    ELSE scale_power(value, vmin, vmax, out_min, out_max)

\* one call of a scale function
ScaleCall ==
    /\ scaled = <<>>
    /\ \E fn \in ScaleFns, value \in ScaleInputs, vmin \in ScaleInputs,
          vmax \in ScaleInputs, out \in ScaleRanges :
         /\ vmin <= vmax
         /\ scaled' =
              IF ScaleRaises(fn, value, vmin, vmax)
              THEN [fn |-> fn, value |-> value, vmin |-> vmin, vmax |-> vmax,
                    out_min |-> out[1], out_max |-> out[2], raised |-> TRUE]
              ELSE [fn |-> fn, value |-> value, vmin |-> vmin, vmax |-> vmax,
                    out_min |-> out[1], out_max |-> out[2], raised |-> FALSE,
                    result |-> ScaleResult(fn, value, vmin, vmax, out[1], out[2])]
    /\ UNCHANGED <<html, TOP_N_ARCHETYPES, tables, todo, graphs_by_format, mainVars,
                   pageVars, viewVars>>
InitScale == InitMain({<<>>}, {0})
SpecScale == InitScale /\ [][ScaleCall]_vars

InitTie == InitMain(OneTable({ArchTableFixed}, SeqsUpTo(TieRows, 1)), {0, 2})
SpecTie == InitTie /\ [][Next]_vars
\* the switch family: two ranges of one format.  The default range has the
\* three archetypes and up to MaxSwitchRows matchup rows; the other range has
\* the archetypes B and A with no row or the row B-A, or all three archetypes
\* with the rows B-A and A-C
SecondArchTable ==
    <<[archetype |-> "B", overall_matches |-> 100, overall_winrate |-> 520],
      [archetype |-> "A", overall_matches |-> 50, overall_winrate |-> 480]>>
SecondArchTableOfThree ==
    SecondArchTable
        \o <<[archetype |-> "C", overall_matches |-> 20, overall_winrate |-> NoWinrate]>>
SecondRow == [a |-> "B", b |-> "A", winrate_a_vs_b |-> 300, matches |-> 10]
SecondTables ==
    {[archetypes_df |-> SecondArchTable, matchups_df |-> <<>>],
     [archetypes_df |-> SecondArchTable, matchups_df |-> <<SecondRow>>],
     [archetypes_df |-> SecondArchTableOfThree,
      matchups_df |-> <<SecondRow,
                        [a |-> "A", b |-> "C", winrate_a_vs_b |-> 600, matches |-> 100]>>]}
TwoTables(firstMatchups, secondTables) ==
    {[k \in Range(RangeKeys) |->
        IF k = DEFAULT_RANGE_KEY
        THEN [archetypes_df |-> ArchTableFixed, matchups_df |-> m1]
        ELSE t2] :
        m1 \in firstMatchups, t2 \in secondTables}

\* the layout family: the archetype tables with also 0 and 1 overall matches,
\* no matchup, every cutoff
LayoutCells == ArchCells \cup {<<0, 500>>, <<1, 500>>}
LayoutTables ==
    UNION {{[i \in 1..k |-> [archetype |-> NameSeq[i],
                             overall_matches |-> c[i][1],
                             overall_winrate |-> c[i][2]]] :
              c \in [1..k -> LayoutCells]} : k \in 0..Len(NameSeq)}
InitLayout == InitMain(OneTable(LayoutTables, {<<>>}), TopNs)
\* the page over the tie family
InitTieView == InitMain(OneTable({ArchTableFixed}, SeqsUpTo(TieRows, 1)), {0})

(***************************************************************************)
(* main(), main.py:55-131, across formats.  What a (format, range) gives   *)
(* is an input: "fetched" (the page was downloaded, parsed and built),     *)
(* "cached" (no page, the CSVs were read and built), "skipped" (no page,   *)
(* no CSVs) or "raised" (parse_page or build_graph raised, which main does *)
(* not catch).  The registry keeps, for each range, how it was got; the    *)
(* graphs themselves are those of the one-format model above.              *)
(***************************************************************************)
Outcomes == {"fetched", "cached", "skipped", "raised"}
FormatRangePairs == Range(FormatKeys) \X Range(RangeKeys)

\* line 78
cache_only(ci, format_key, range_key) ==
    ci /\ (format_key # DEFAULT_FORMAT_KEY \/ range_key # DEFAULT_RANGE_KEY)

\* the first key of a dict filled in the order of keys
FirstKey(keys, d) == SelectSeq(keys, LAMBDA k : k \in DOMAIN d)[1]

\* the default range is handed over whether the format has it or not
pick_default_range_no_fallback(default_ranges) == DEFAULT_RANGE_KEY
\* line 115
pick_default_format(graphs) ==
    IF DEFAULT_FORMAT_KEY \in DOMAIN graphs THEN DEFAULT_FORMAT_KEY
    ELSE FirstKey(FormatKeys, graphs)
\* line 122
pick_default_range(default_ranges) ==
    IF DEFAULT_RANGE_KEY \in DOMAIN default_ranges THEN DEFAULT_RANGE_KEY
    ELSE FirstKey(RangeKeys, default_ranges)

\* render_html.py:179-184: the two key checks of render_pyvis
render_pyvis_raises(graphs, format_key, range_key) ==
    \/ format_key \notin DOMAIN graphs
    \/ range_key \notin DOMAIN graphs[format_key]

InitOrch ==
    /\ scaled = <<>>
    /\ html = <<>>
    /\ TOP_N_ARCHETYPES = 0
    /\ tables = <<>>
    /\ todo = <<>>
    /\ graphs_by_format = <<>>
    /\ datasetsByFormat = <<>>
    /\ defaultRangeKey = ""
    /\ currentRangeKey = ""
    /\ nodes = <<>>
    /\ edges = <<>>
    /\ baseNodeState = <<>>
    /\ baseEdgeState = <<>>
    /\ baseSizes = <<>>
    /\ filterValue = ""
    /\ tableSortKey = ""
    /\ tableSortDir = ""
    /\ matchupBody = <<>>
    /\ in_ci \in BOOLEAN
    /\ outcome \in [FormatRangePairs -> Outcomes]
    \* lines 78-85: no page is downloaded in cache-only mode
    /\ \A fr \in FormatRangePairs :
         cache_only(in_ci, fr[1], fr[2]) => outcome[fr] # "fetched"
    /\ format_pos = 1
    /\ range_pos = 1
    /\ graphs_for_format = <<>>
    /\ registry = <<>>
    /\ default_format_key = ""
    /\ default_range_key = ""
    /\ mainResult = "running"

OrchFrame ==
    UNCHANGED <<scaled, html, TOP_N_ARCHETYPES, tables, todo, graphs_by_format, pageVars,
                viewVars, in_ci, outcome>>

\* lines 72-107: one pass of the inner loop
MainRange ==
    /\ mainResult = "running"
    /\ format_pos <= Len(FormatKeys)
    /\ range_pos <= Len(RangeKeys)
    /\ LET format_key == FormatKeys[format_pos]
           range_key == RangeKeys[range_pos]
           got == outcome[<<format_key, range_key>>]
       IN /\ mainResult' = IF got = "raised" THEN "aborted" ELSE "running"
          /\ graphs_for_format' =
               IF got \in {"fetched", "cached"}
               THEN [k \in DOMAIN graphs_for_format \cup {range_key} |->
                        IF k = range_key THEN got ELSE graphs_for_format[k]]
               ELSE graphs_for_format
    /\ range_pos' = range_pos + 1
    /\ UNCHANGED <<format_pos, registry, default_format_key, default_range_key>>
    /\ OrchFrame

\* lines 109-110 and 67-70: the end of a pass of the outer loop
MainFormatEnd ==
    /\ mainResult = "running"
    /\ format_pos <= Len(FormatKeys)
    /\ range_pos > Len(RangeKeys)
    /\ registry' =
         IF graphs_for_format # <<>>
         THEN [f \in DOMAIN registry \cup {FormatKeys[format_pos]} |->
                 IF f = FormatKeys[format_pos] THEN graphs_for_format ELSE registry[f]]
         ELSE registry
    /\ format_pos' = format_pos + 1
    /\ range_pos' = 1
    /\ graphs_for_format' = <<>>
    /\ UNCHANGED <<default_format_key, default_range_key, mainResult>>
    /\ OrchFrame

\* lines 112-113
MainRaise ==
    /\ mainResult = "running"
    /\ format_pos > Len(FormatKeys)
    /\ registry = <<>>
    /\ mainResult' = "RuntimeError"
    /\ UNCHANGED <<format_pos, range_pos, graphs_for_format, registry, default_format_key,
                   default_range_key>>
    /\ OrchFrame

\* lines 115-131: the defaults are picked and render_pyvis is called
MainRender ==
    /\ mainResult = "running"
    /\ format_pos > Len(FormatKeys)
    /\ registry # <<>>
    /\ LET dfk == pick_default_format(registry)
           drk == pick_default_range(registry[dfk])
       IN /\ default_format_key' = dfk
          /\ default_range_key' = drk
          /\ mainResult' = IF render_pyvis_raises(registry, dfk, drk)
                           THEN "KeyError" ELSE "rendered"
    /\ UNCHANGED <<format_pos, range_pos, graphs_for_format, registry>>
    /\ OrchFrame

NextOrch ==
    \/ MainRange
    \/ MainFormatEnd
    \/ MainRaise
    \/ MainRender
SpecOrch == InitOrch /\ [][NextOrch]_vars

(***************************************************************************)
(*                         PROPERTIES OF THE BUILDER                       *)
(***************************************************************************)
Built == DEFAULT_RANGE_KEY \in DOMAIN graphs_by_format
BuiltOk == Built /\ ~graphs_by_format[DEFAULT_RANGE_KEY].G.raised
TheG == graphs_by_format[DEFAULT_RANGE_KEY].G
TheSortedArch == graphs_by_format[DEFAULT_RANGE_KEY].df
TheMatchups == tables[DEFAULT_RANGE_KEY].matchups_df

\* the archetypes that survive the cutoff, read off the sorted table
KeptCount == IF TOP_N_ARCHETYPES > 0
             THEN Min2(TOP_N_ARCHETYPES, Len(TheSortedArch))
             ELSE Len(TheSortedArch)
KeptNames == {TheSortedArch[i].archetype : i \in 1..KeptCount}

\* the rows of the filtered matchup set, as indexes of the matchup table
PassesFilter(r) ==
    r.matches >= MIN_MATCHES_EDGE /\ r.a \in KeptNames /\ r.b \in KeptNames
RowsOfPair(a, b) ==
    {i \in DOMAIN TheMatchups :
        /\ PassesFilter(TheMatchups[i])
        /\ {TheMatchups[i].a, TheMatchups[i].b} = {a, b}}
EdgesOfPair(a, b) ==
    {i \in DOMAIN TheG.edges : {TheG.edges[i].from, TheG.edges[i].to} = {a, b}}
FirstRowOfPair(a, b) == TheMatchups[SetMin(RowsOfPair(a, b))]

\* C1: for every unordered pair {a,b}, a # b, the built graph holds exactly one
\* edge between a and b when the filtered matchup set has a row for the pair, and
\* no edge when it has none.
C1_DedupInvariant ==
    BuiltOk =>
        \A a, b \in Names :
            a # b =>
                Cardinality(EdgesOfPair(a, b)) =
                    (IF RowsOfPair(a, b) # {} THEN 1 ELSE 0)

\* a mirrored pair of rows, both in the filtered set, gave one edge, and another
\* pair without rows gave none
C1_Witness ==
    /\ BuiltOk
    /\ \E i, j \in DOMAIN TheMatchups :
         /\ i # j
         /\ TheMatchups[i].a # TheMatchups[i].b
         /\ TheMatchups[i].a = TheMatchups[j].b
         /\ TheMatchups[i].b = TheMatchups[j].a
         /\ PassesFilter(TheMatchups[i]) /\ PassesFilter(TheMatchups[j])
         /\ Cardinality(EdgesOfPair(TheMatchups[i].a, TheMatchups[i].b)) = 1
    /\ \E a, b \in Names : a # b /\ RowsOfPair(a, b) = {} /\ EdgesOfPair(a, b) = {}

\* C2: every non-neutral edge stores a winrate above one half, winrate_from
\* equal to it, and its source is the side that wins with that probability
\* according to the row the edge was read from.
C2_OrientationInvariant ==
    BuiltOk =>
        \A i \in DOMAIN TheG.edges :
            LET e == TheG.edges[i]
            IN ~e.neutral =>
                /\ e.winrate > 500
                /\ e.winrate_from = e.winrate
                /\ e.from # e.to
                /\ RowsOfPair(e.from, e.to) # {}
                /\ LET r == FirstRowOfPair(e.from, e.to)
                   IN IF r.a = e.from
                      THEN r.winrate_a_vs_b = e.winrate
                      ELSE 1000 - r.winrate_a_vs_b = e.winrate

\* a non-neutral edge whose source is the b side of its row (a loses), and one
\* whose source is the a side
C2_Witness ==
    /\ BuiltOk
    /\ \E i, j \in DOMAIN TheG.edges :
         /\ ~TheG.edges[i].neutral /\ ~TheG.edges[j].neutral
         /\ FirstRowOfPair(TheG.edges[i].from, TheG.edges[i].to).b = TheG.edges[i].from
         /\ FirstRowOfPair(TheG.edges[j].from, TheG.edges[j].to).a = TheG.edges[j].from

\* C3: a pair with a single row (p, q, w, m) in the filtered set, |w - 0.5| >
\* EPS_TIE, gets exactly one edge, with matches m, winrate max(w, 1 - w), source
\* p when w > 0.5 and q otherwise.
C3_ComplementInference ==
    BuiltOk =>
        \A p, q \in Names :
            (/\ p # q
             /\ Cardinality(RowsOfPair(p, q)) = 1
             /\ FirstRowOfPair(p, q).a = p
             /\ Abs(FirstRowOfPair(p, q).winrate_a_vs_b - 500) > EPS_TIE)
            => LET r == FirstRowOfPair(p, q)
                   w == r.winrate_a_vs_b
               IN /\ Cardinality(EdgesOfPair(p, q)) = 1
                  /\ \A i \in EdgesOfPair(p, q) :
                        /\ TheG.edges[i].matches = r.matches
                        /\ TheG.edges[i].winrate = Max2(w, 1000 - w)
                        /\ TheG.edges[i].from = (IF w > 500 THEN p ELSE q)
                        /\ TheG.edges[i].to = (IF w > 500 THEN q ELSE p)

\* the spec's example up to renaming: only row (B, A, 0.7, 100) gives B -> A
\* with winrate 0.7; and a lone losing row (p, q, 0.3) gives q -> p
C3_Witness ==
    /\ BuiltOk
    /\ RowsOfPair("A", "B") # {}
    /\ Cardinality(RowsOfPair("A", "B")) = 1
    /\ FirstRowOfPair("A", "B") =
          [a |-> "B", b |-> "A", winrate_a_vs_b |-> 700, matches |-> 100]
    /\ \E i \in EdgesOfPair("A", "B") :
          TheG.edges[i].from = "B" /\ TheG.edges[i].to = "A"
          /\ TheG.edges[i].winrate = 700 /\ TheG.edges[i].matches = 100
    /\ \E p, q \in Names :
          /\ p # q /\ Cardinality(RowsOfPair(p, q)) = 1
          /\ FirstRowOfPair(p, q).a = p
          /\ FirstRowOfPair(p, q).winrate_a_vs_b = 300
          /\ \E i \in EdgesOfPair(p, q) : TheG.edges[i].from = q

\* C4: with TOP_N_ARCHETYPES = N > 0 the nodes are exactly the N archetypes with
\* the largest overall_matches (all when there are fewer), no edge has an
\* endpoint outside them, and a row touching another archetype gives no edge.
AllArchetypes == {TheSortedArch[i].archetype : i \in DOMAIN TheSortedArch}
OverallMatches(n) ==
    (CHOOSE i \in DOMAIN TheSortedArch : TheSortedArch[i].archetype = n) 
C4_TopNCutoff ==
    (BuiltOk /\ TOP_N_ARCHETYPES > 0) =>
        /\ NodeIds(TheG) \subseteq AllArchetypes
        /\ Cardinality(NodeIds(TheG)) =
              Min2(TOP_N_ARCHETYPES, Cardinality(AllArchetypes))
        /\ Len(TheG.nodes) = Cardinality(NodeIds(TheG))
        /\ \A n \in NodeIds(TheG) : \A o \in AllArchetypes \ NodeIds(TheG) :
              TheSortedArch[OverallMatches(n)].overall_matches >=
                  TheSortedArch[OverallMatches(o)].overall_matches
        /\ \A i \in DOMAIN TheG.edges :
              TheG.edges[i].from \in NodeIds(TheG) /\ TheG.edges[i].to \in NodeIds(TheG)
        /\ \A i \in DOMAIN TheMatchups :
              (TheMatchups[i].a \notin NodeIds(TheG) \/ TheMatchups[i].b \notin NodeIds(TheG))
              => EdgesOfPair(TheMatchups[i].a, TheMatchups[i].b) = {}

\* the spec's example: three archetypes, N = 2, the smallest one is cut and a
\* row with enough matches touches it
C4_Witness ==
    /\ BuiltOk
    /\ TOP_N_ARCHETYPES = 2
    /\ Len(TheSortedArch) = 3
    /\ TheSortedArch[3].overall_matches < TheSortedArch[2].overall_matches
    /\ TheSortedArch[3].archetype \notin NodeIds(TheG)
    /\ \E i \in DOMAIN TheMatchups :
          /\ TheMatchups[i].matches >= MIN_MATCHES_EDGE
          /\ TheMatchups[i].a # TheMatchups[i].b
          /\ TheSortedArch[3].archetype \in {TheMatchups[i].a, TheMatchups[i].b}
    /\ TheG.edges = <<>>

\* C5: an edge is neutral (no arrowhead, winrate_from 0.5, the colour of 0.5)
\* if and only if |winrate_a_vs_b - 0.5| <= EPS_TIE, the boundary included:
\* 0.495 and 0.505 are neutral.
C5_NeutralBoundary ==
    BuiltOk =>
        \A i \in DOMAIN TheG.edges :
            LET e == TheG.edges[i]
                r == FirstRowOfPair(e.from, e.to)
            IN /\ e.neutral <=> Abs(r.winrate_a_vs_b - 500) <= EPS_TIE
               /\ e.neutral =>
                    /\ e.arrows = ""
                    /\ e.winrate_from = 500
                    /\ e.color = edge_winrate_color(500)

(***************************************************************************)
(*                     THE PAGE AND ITS INTERACTIVE LAYER                  *)
(***************************************************************************)
\* lines 722-759: what showRelations leaves in the two DataSets
showRelationsNodes(nodesArray, edgesArray, sizes, nodeId) ==
    layoutVisibleNodesCentered(hideUnrelatedNodes(nodesArray, edgesArray, nodeId),
                               sizes, nodeId)
showRelationsEdges(edgesArray, nodeId) ==
    applyCenterEdgeEncoding(hideUnrelatedEdges(edgesArray, nodeId), nodeId)

\* main.py:112-131 and render_html.py:213-239: the registry is serialized
RenderPyvis ==
    /\ todo = <<>>
    /\ defaultRangeKey = ""
    /\ DOMAIN graphs_by_format # {}
    /\ \A k \in DOMAIN graphs_by_format : ~graphs_by_format[k].G.raised
    /\ datasetsByFormat' =
         [k \in DOMAIN graphs_by_format |->
            build_dataset(graphs_by_format[k].G, graphs_by_format[k].df)]
    /\ defaultRangeKey' =
         IF DEFAULT_RANGE_KEY \in DOMAIN graphs_by_format THEN DEFAULT_RANGE_KEY
         ELSE SelectSeq(RangeKeys, LAMBDA k : k \in DOMAIN graphs_by_format)[1]
    /\ UNCHANGED <<buildVars, viewVars>>

\* lines 832-843
chooseRangeKey(preferredRangeKey) ==
    IF preferredRangeKey \in DOMAIN datasetsByFormat THEN preferredRangeKey
    ELSE IF defaultRangeKey \in DOMAIN datasetsByFormat THEN defaultRangeKey
    ELSE SelectSeq(RangeKeys, LAMBDA k : k \in DOMAIN datasetsByFormat)[1]

\* loadDataset that puts the sort of the side panel back to its default
loadDatasetResetSort(rangeKey) ==
    LET dataset == datasetsByFormat[chooseRangeKey(rangeKey)]
        bns == initBaseNodeState(dataset.nodes)
        bes == initBaseEdgeState(dataset.edges)
        bsz == initBaseSizes(dataset.nodes)
    IN /\ currentRangeKey' = chooseRangeKey(rangeKey)
       /\ baseNodeState' = bns
       /\ baseEdgeState' = bes
       /\ baseSizes' = bsz
       /\ filterValue' = ALL
       /\ nodes' = showAllNodes(dataset.nodes, bns, bsz)
       /\ edges' = showAllEdges(dataset.edges, bes)
       /\ matchupBody' = <<>>
       /\ tableSortKey' = ""
       /\ tableSortDir' = ""

\* loadDataset without initBaseState once a dataset was loaded
loadDatasetKeepSnapshot(rangeKey) ==
    LET dataset == datasetsByFormat[chooseRangeKey(rangeKey)]
        first == currentRangeKey = ""
        bns == IF first THEN initBaseNodeState(dataset.nodes) ELSE baseNodeState
        bes == IF first THEN initBaseEdgeState(dataset.edges) ELSE baseEdgeState
        bsz == IF first THEN initBaseSizes(dataset.nodes) ELSE baseSizes
    IN /\ currentRangeKey' = chooseRangeKey(rangeKey)
       /\ baseNodeState' = bns
       /\ baseEdgeState' = bes
       /\ baseSizes' = bsz
       /\ filterValue' = ALL
       /\ nodes' = showAllNodes(dataset.nodes, bns, bsz)
       /\ edges' = showAllEdges(dataset.edges, bes)
       /\ matchupBody' = <<>>
       /\ UNCHANGED <<tableSortKey, tableSortDir>>

\* loadDataset without the reset of the archetype filter
loadDatasetKeepFilter(rangeKey) ==
    LET dataset == datasetsByFormat[chooseRangeKey(rangeKey)]
        bns == initBaseNodeState(dataset.nodes)
        bes == initBaseEdgeState(dataset.edges)
        bsz == initBaseSizes(dataset.nodes)
    IN /\ currentRangeKey' = chooseRangeKey(rangeKey)
       /\ baseNodeState' = bns
       /\ baseEdgeState' = bes
       /\ baseSizes' = bsz
       /\ filterValue' = IF currentRangeKey = "" THEN ALL ELSE filterValue
       /\ nodes' = showAllNodes(dataset.nodes, bns, bsz)
       /\ edges' = showAllEdges(dataset.edges, bes)
       /\ matchupBody' = <<>>
       /\ UNCHANGED <<tableSortKey, tableSortDir>>

\* lines 878-907
loadDataset(rangeKey) ==
    LET dataset == datasetsByFormat[chooseRangeKey(rangeKey)]
        bns == initBaseNodeState(dataset.nodes)
        bes == initBaseEdgeState(dataset.edges)
        bsz == initBaseSizes(dataset.nodes)
    IN /\ currentRangeKey' = chooseRangeKey(rangeKey)
       /\ baseNodeState' = bns
       /\ baseEdgeState' = bes
       /\ baseSizes' = bsz
       /\ filterValue' = ALL                  \* rebuildArchetypeOptions
       /\ nodes' = showAllNodes(dataset.nodes, bns, bsz)
       /\ edges' = showAllEdges(dataset.edges, bes)
       /\ matchupBody' = <<>>
       /\ UNCHANGED <<tableSortKey, tableSortDir>>

\* lines 1384-1388: the script runs when the page is opened
OpenPage ==
    /\ defaultRangeKey # ""
    /\ currentRangeKey = ""
    /\ loadDataset(defaultRangeKey)
    /\ UNCHANGED <<buildVars, pageVars>>

\* lines 660-720
showAll ==
    /\ nodes' = showAllNodes(nodes, baseNodeState, baseSizes)
    /\ edges' = showAllEdges(edges, baseEdgeState)
    /\ matchupBody' = <<>>

\* lines 722-759
showRelations(nodeId) ==
    /\ nodes' = showRelationsNodes(nodes, edges, baseSizes, nodeId)
    /\ edges' = showRelationsEdges(edges, nodeId)
    /\ matchupBody' = renderMatchups(showRelationsEdges(edges, nodeId), nodeId,
                                     tableSortKey, tableSortDir)

DataNodeIds == {nodes[i].id : i \in {j \in DOMAIN nodes : ~nodes[j].is_label_node}}

\* lines 1085-1099: the user clicks a node (or a label) that is shown
SelectNode ==
    /\ currentRangeKey # ""
    /\ \E i \in DOMAIN nodes :
         /\ ~nodes[i].hidden
         /\ LET nodeObj == nodes[i]
                nodeId == IF nodeObj.is_label_node /\ nodeObj.base_id # ""
                          THEN nodeObj.base_id ELSE nodeObj.id
            IN /\ filterValue' = nodeId
               /\ showRelations(nodeId)
    /\ UNCHANGED <<buildVars, pageVars, currentRangeKey, baseNodeState, baseEdgeState,
                   baseSizes, tableSortKey, tableSortDir>>

\* lines 1101-1105: what the deselectNode handler leaves in the DataSets
deselectNodeNodes ==
    IF filterValue = ALL THEN showAllNodes(nodes, baseNodeState, baseSizes) ELSE nodes
deselectNodeEdges ==
    IF filterValue = ALL THEN showAllEdges(edges, baseEdgeState) ELSE edges

\* lines 1101-1105: the user clears the selection
DeselectNode ==
    /\ currentRangeKey # ""
    /\ nodes' = deselectNodeNodes
    /\ edges' = deselectNodeEdges
    /\ matchupBody' = IF filterValue = ALL THEN <<>> ELSE matchupBody
    /\ UNCHANGED <<buildVars, pageVars, currentRangeKey, baseNodeState, baseEdgeState,
                   baseSizes, filterValue, tableSortKey, tableSortDir>>

\* lines 923-930 (and 789-800): the user picks another value in the archetype
\* filter, or clears the control (allowEmptyOption), which leaves the value ""
FilterChange ==
    /\ currentRangeKey # ""
    /\ \E value \in {ALL, ""} \cup DataNodeIds :
         /\ value # filterValue
         /\ filterValue' = value
         /\ IF value = "" \/ value = ALL THEN showAll ELSE showRelations(value)
    /\ UNCHANGED <<buildVars, pageVars, currentRangeKey, baseNodeState, baseEdgeState,
                   baseSizes, tableSortKey, tableSortDir>>

\* lines 932-939: the reset button
ResetClick ==
    /\ currentRangeKey # ""
    /\ filterValue' = ALL
    /\ showAll
    /\ UNCHANGED <<buildVars, pageVars, currentRangeKey, baseNodeState, baseEdgeState,
                   baseSizes, tableSortKey, tableSortDir>>

\* lines 1338-1352 and 1358-1360: a click on a header of the side panel
SortKeys == {"deck", "winrate", "matches"}
\* a click on the current column leaves the direction as it is
setSortKeepDirection(sortKey, sortDir, key) ==
    LET currentKey == SortKeyOr(sortKey)
        currentDir == SortDirOr(sortDir)
    IN IF key = currentKey
       THEN <<sortKey, currentDir>>
       ELSE <<key, IF key = "deck" THEN "asc" ELSE "desc">>
\* lines 1339-1346: window.__tableSortKey and window.__tableSortDir after setSort(key)
setSort(sortKey, sortDir, key) ==
    LET currentKey == SortKeyOr(sortKey)
        currentDir == SortDirOr(sortDir)
    IN IF key = currentKey
       THEN <<sortKey, IF currentDir = "asc" THEN "desc" ELSE "asc">>
       ELSE <<key, IF key = "deck" THEN "asc" ELSE "desc">>
SetSort ==
    /\ currentRangeKey # ""
    /\ \E key \in SortKeys :
         LET newKey == setSort(tableSortKey, tableSortDir, key)[1]
             newDir == setSort(tableSortKey, tableSortDir, key)[2]
         IN /\ tableSortKey' = newKey
            /\ tableSortDir' = newDir
            /\ IF filterValue # "" /\ filterValue # ALL
               THEN matchupBody' = renderMatchups(edges, filterValue, newKey, newDir)
               ELSE UNCHANGED matchupBody
    /\ UNCHANGED <<buildVars, pageVars, currentRangeKey, nodes, edges, baseNodeState,
                   baseEdgeState, baseSizes, filterValue>>

\* the view family: up to MaxViewRows rows, the i-th about the i-th pair of
\* archetypes (cyclically), with any of the cells
MaxViewRows == 3
ViewCells == {<<700, 100>>, <<500, 10>>, <<300, 1000>>}
ViewPairSeq == <<(<<"A", "B">>), (<<"C", "A">>), (<<"B", "C">>)>>
ViewRowAt(i, c) ==
    LET p == ViewPairSeq[((i - 1) % Len(ViewPairSeq)) + 1]
    IN [a |-> p[1], b |-> p[2], winrate_a_vs_b |-> c[1], matches |-> c[2]]
ViewTables(n) ==
    UNION {{[i \in 1..k |-> ViewRowAt(i, c[i])] : c \in [1..k -> ViewCells]} :
             k \in 0..n}

InitView == InitMain(OneTable({ArchTableFixed}, ViewTables(MaxViewRows)), {0})
NextView ==
    \/ BuildGraph
    \/ RenderPyvis
    \/ OpenPage
    \/ SelectNode
    \/ DeselectNode
    \/ FilterChange
    \/ ResetClick
SpecView == InitView /\ [][NextView]_vars
SpecTieView == InitTieView /\ [][NextView]_vars
NextLayout ==
    \/ BuildGraph
    \/ RenderPyvis
SpecLayout == InitLayout /\ [][NextLayout]_vars

\* lines 941-943
clamp01(x) == Max2(0, Min2(1000, x))

\* the winrate of the edge's from side is given for either order of the pair
matchupForNoComplement(edgesArray, rowId, colId) ==
    IF rowId = colId THEN [isNull |-> FALSE, wr |-> 500, matches |-> 0, diag |-> TRUE]
    ELSE LET edgeAB == SelectSeq(edgesArray, LAMBDA e : e.from = rowId /\ e.to = colId)
             edgeBA == SelectSeq(edgesArray, LAMBDA e : e.from = colId /\ e.to = rowId)
         IN IF edgeAB = <<>> /\ edgeBA = <<>>
            THEN [isNull |-> TRUE, wr |-> 0, matches |-> 0, diag |-> FALSE]
            ELSE LET edge == IF edgeAB # <<>> THEN edgeAB[1] ELSE edgeBA[1]
                 IN [isNull |-> FALSE, wr |-> clamp01(edge.winrate_from),
                     matches |-> edge.matches, diag |-> FALSE]

\* lines 955-979: the cell of the matrix view for row rowId and column colId,
\* read from the edges DataSet as it is (isNull stands for the null result)
matchupFor(edgesArray, rowId, colId) ==
    IF rowId = colId THEN [isNull |-> FALSE, wr |-> 500, matches |-> 0, diag |-> TRUE]
    ELSE LET edgeAB == SelectSeq(edgesArray, LAMBDA e : e.from = rowId /\ e.to = colId)
             edgeBA == SelectSeq(edgesArray, LAMBDA e : e.from = colId /\ e.to = rowId)
         IN IF edgeAB = <<>> /\ edgeBA = <<>>
            THEN [isNull |-> TRUE, wr |-> 0, matches |-> 0, diag |-> FALSE]
            ELSE LET edge == IF edgeAB # <<>> THEN edgeAB[1] ELSE edgeBA[1]
                     wrFrom == edge.winrate_from
                     wrRow == IF edgeAB # <<>> THEN wrFrom ELSE 1000 - wrFrom
                 IN [isNull |-> FALSE, wr |-> clamp01(wrRow),
                     matches |-> edge.matches, diag |-> FALSE]

\* lines 917-921: the user picks another range
RangeChange ==
    /\ currentRangeKey # ""
    /\ \E value \in DOMAIN datasetsByFormat :
         /\ value # currentRangeKey
         /\ loadDataset(value)
    /\ UNCHANGED <<buildVars, pageVars>>

\* lines 909-915: the format select changes; the registry has one format, so
\* the entry is the same and the range is the one chooseRangeKey picks for
\* defaultRangeKey
FormatChange ==
    /\ currentRangeKey # ""
    /\ loadDataset(chooseRangeKey(defaultRangeKey))
    /\ UNCHANGED <<buildVars, pageVars>>

\* the same page with the headers of the side panel clicked as well, over the
\* tables of up to MaxPanelRows rows
MaxPanelRows == 2
InitPanel == InitMain(OneTable({ArchTableFixed}, ViewTables(MaxPanelRows)), {0})
NextPanel ==
    \/ BuildGraph
    \/ RenderPyvis
    \/ OpenPage
    \/ SelectNode
    \/ DeselectNode
    \/ FilterChange
    \/ ResetClick
    \/ SetSort
SpecPanel == InitPanel /\ [][NextPanel]_vars

\* the page over the switch family, with every handler
InitSwitch == InitMain(TwoTables(ViewTables(MaxSwitchRows), SecondTables), {0})
NextSwitch ==
    \/ BuildGraph
    \/ RenderPyvis
    \/ OpenPage
    \/ SelectNode
    \/ DeselectNode
    \/ FilterChange
    \/ ResetClick
    \/ SetSort
    \/ RangeChange
    \/ FormatChange
SpecSwitch == InitSwitch /\ [][NextSwitch]_vars

(***************************************************************************)
(*                    PROPERTIES OF THE INTERACTIVE LAYER                  *)
(***************************************************************************)
Loaded == currentRangeKey # ""
ThePayload == datasetsByFormat[currentRangeKey]
\* the view loadDataset leaves: the un-focused view right after the load
LoadedNodes ==
    showAllNodes(ThePayload.nodes, initBaseNodeState(ThePayload.nodes),
                 initBaseSizes(ThePayload.nodes))
LoadedEdges == showAllEdges(ThePayload.edges, initBaseEdgeState(ThePayload.edges))

NodePlace(n) == [x |-> n.x, y |-> n.y, fixed |-> n.fixed]
EdgeLook(e) == [from |-> e.from, to |-> e.to, color |-> e.color,
                arrows |-> e.arrows, width |-> e.width]
NodePresentation(ns) ==
    [id \in ItemIds(ns) |-> [place |-> NodePlace(ItemById(ns, id)),
                             hidden |-> ItemById(ns, id).hidden]]
EdgePresentation(es) ==
    [id \in ItemIds(es) |-> [look |-> EdgeLook(ItemById(es, id)),
                             hidden |-> ItemById(es, id).hidden]]
Focused == Loaded /\ filterValue # ALL /\ filterValue # ""
\* a step that resets a focused view (the reset button, or the filter set to All)
ResetStep == Focused /\ filterValue' = ALL

\* C6: focus(N) followed by reset, from the un-focused view right after the load,
\* gives back that view: in every un-focused view (the one the load leaves and
\* the one any reset leaves) every node has the x, y, fixed and hidden it had
\* right after the load and every edge the from, to, color, arrows, width and
\* hidden it had right after the load.
C6_FocusResetRoundTrip ==
    (Loaded /\ filterValue = ALL) =>
        /\ NodePresentation(nodes) = NodePresentation(LoadedNodes)
        /\ EdgePresentation(edges) = EdgePresentation(LoadedEdges)

\* a reset view of three edges, each of them encoded by an earlier focus (so two
\* different nodes were focused), one of them neutral, and a label node in place
C6_Witness ==
    /\ Loaded /\ filterValue = ALL
    /\ Len(edges) = 3
    /\ \A i \in DOMAIN edges : edges[i].wr_center # WrUndefined /\ ~edges[i].hidden
    /\ \E i \in DOMAIN edges : edges[i].neutral /\ edges[i].arrows = ArrowsToDisabled
    /\ NodePresentation(nodes) = NodePresentation(LoadedNodes)
    /\ EdgePresentation(edges) = EdgePresentation(LoadedEdges)

\* the serialized payload's values in the view
MatchesPayload ==
    /\ \A i \in DOMAIN ThePayload.nodes :
         LET p == ThePayload.nodes[i]
         IN p.id \in ItemIds(nodes) /\ NodePlace(ItemById(nodes, p.id)) = NodePlace(p)
    /\ \A i \in DOMAIN ThePayload.edges :
         LET p == ThePayload.edges[i]
         IN p.id \in ItemIds(edges) /\ EdgeLook(ItemById(edges, p.id)) = EdgeLook(p)

\* C7: after a reset, whatever focus actions came before it, every node (data
\* node or label node) has the x, y and fixed of its entry in the serialized
\* payload and every edge the from, to, color, arrows and width of its entry.
C7_ResetRestoresPayload == [][ResetStep => MatchesPayload']_vars

\* the edges incident to the focal node, and their matches
IncidentEdges == {i \in DOMAIN edges : edges[i].from = filterValue \/ edges[i].to = filterValue}
IncidentMatches == {edges[i].matches : i \in IncidentEdges}

\* C8: after focus(N) on any node N with at least one incident edge, the incident
\* edge(s) with the largest matches among N's incident edges are rendered at the
\* maximum width of the focus scale, whatever the matches of the other edges.
C8_LocalWidthRescale ==
    (Focused /\ IncidentEdges # {}) =>
        \A i \in IncidentEdges :
            edges[i].matches = SetMax(IncidentMatches) => edges[i].width = OUT_MAX

\* C8 as amended: after focus(N), when N's incident edges have at least two
\* different matches values, the incident edge(s) with the largest matches are
\* rendered at the maximum width of the focus scale (10.0) and those with the
\* smallest at its minimum (0.6), whatever the matches of the other edges; when
\* all incident edges have the same matches (a single incident edge is the
\* common case) each is rendered at the midpoint of the scale (5.3).
C8_LocalWidthRescaleAmended ==
    (Focused /\ IncidentEdges # {}) =>
        \A i \in IncidentEdges :
            IF Cardinality(IncidentMatches) >= 2
            THEN /\ edges[i].matches = SetMax(IncidentMatches) => edges[i].width = OUT_MAX
                 /\ edges[i].matches = SetMin(IncidentMatches) => edges[i].width = OUT_MIN
            ELSE edges[i].width = (OUT_MIN + OUT_MAX) \div 2

\* a focal node with incident matches 10 and 100 while another edge has 1000:
\* the 100-match edge is at the maximum width
C8_Witness ==
    /\ Focused
    /\ IncidentMatches = {10, 100}
    /\ \E j \in DOMAIN edges : j \notin IncidentEdges /\ edges[j].matches = 1000
    /\ \E i \in IncidentEdges : edges[i].matches = 100 /\ edges[i].width = OUT_MAX

\* C9: in every state of the page after a load, whatever focus, reset, deselect
\* and sort actions were taken, the DataSets hold the payload's nodes and edges
\* and each agrees with its payload entry on every field but the presentation
\* ones (x, y, fixed, hidden of a node; from, to, color, arrows, width, hidden
\* and wr_center of an edge): matches and overall_winrate of a node and matches,
\* winrate, winrate_from and neutral of an edge never change.
C9_PresentationOnlyFrame ==
    Loaded =>
        /\ ItemIds(nodes) = ItemIds(ThePayload.nodes)
        /\ ItemIds(edges) = ItemIds(ThePayload.edges)
        /\ \A i \in DOMAIN nodes :
             LET p == ItemById(ThePayload.nodes, nodes[i].id)
             IN [nodes[i] EXCEPT !.x = p.x, !.y = p.y, !.fixed = p.fixed,
                                 !.hidden = p.hidden] = p
        /\ \A i \in DOMAIN edges :
             LET p == ItemById(ThePayload.edges, edges[i].id)
             IN [edges[i] EXCEPT !.from = p.from, !.to = p.to, !.color = p.color,
                                 !.arrows = p.arrows, !.width = p.width,
                                 !.hidden = p.hidden, !.wr_center = p.wr_center] = p

\* a focused view reached after a sort click and an earlier focus on another
\* node: an edge is flipped with respect to the payload, a hidden edge carries a
\* wr_center, and the stored winrate_from of a non-neutral edge seen from its
\* disfavored side differs from the wr_center written next to it
C9_Witness ==
    /\ Focused
    /\ tableSortKey # ""
    /\ \E i \in DOMAIN edges :
         edges[i].from # ItemById(ThePayload.edges, edges[i].id).from
    /\ \E i \in DOMAIN edges : edges[i].hidden /\ edges[i].wr_center # WrUndefined
    /\ \E i \in DOMAIN edges :
         /\ ~edges[i].hidden /\ ~edges[i].neutral
         /\ edges[i].wr_center # WrUndefined
         /\ edges[i].wr_center # edges[i].winrate_from
         /\ edges[i].winrate_from = ItemById(ThePayload.edges, edges[i].id).winrate_from

\* the base state a full reset of the present view would give
BaseNodes == showAllNodes(nodes, baseNodeState, baseSizes)
BaseEdges == showAllEdges(edges, baseEdgeState)
\* the nodes another focus can be applied to while a focus is active
OtherFocusIds == IF Focused THEN DataNodeIds \ {filterValue} ELSE {}
\* what showRelations(B) leaves when applied to the present view, and what it
\* leaves when applied to the fully reset view
SwitchNodes(B) == NodePresentation(showRelationsNodes(nodes, edges, baseSizes, B))
SwitchEdges(B) == EdgePresentation(showRelationsEdges(edges, B))
ResetThenFocusNodes(B) ==
    NodePresentation(showRelationsNodes(BaseNodes, BaseEdges, baseSizes, B))
ResetThenFocusEdges(B) == EdgePresentation(showRelationsEdges(BaseEdges, B))

\* C10: when focus(B) is applied while focus(A) is active, the resulting state
\* is the base state with focus(B) applied: every node has the position, fixed
\* and hidden flag, and every edge the from, to, color, arrows, width and hidden
\* flag, that focus(B) gives them from the fully reset view (so an edge not
\* incident to B has its base attributes and a node not shown for B its base
\* position).
C10_SingleActiveFocus ==
    \A B \in OtherFocusIds :
        /\ SwitchNodes(B) = ResetThenFocusNodes(B)
        /\ SwitchEdges(B) = ResetThenFocusEdges(B)

\* C10 as amended: when focus(B) is applied while focus(A) is active, every
\* node and edge has the hidden flag that focus(B) gives it from the fully
\* reset view, and every node and edge that is shown has the position and fixed
\* flag, or the from, to, color, arrows and width, that focus(B) gives it from
\* the fully reset view; a node or an edge that focus(B) hides is not reset: it
\* keeps the position or the attributes it had under focus(A).
C10_SingleActiveFocusAmended ==
    \A B \in OtherFocusIds :
        LET ns == ResetThenFocusNodes(B)
            es == ResetThenFocusEdges(B)
            was == NodePresentation(nodes)
            wasE == EdgePresentation(edges)
            now == SwitchNodes(B)
            nowE == SwitchEdges(B)
        IN /\ DOMAIN now = DOMAIN ns /\ DOMAIN nowE = DOMAIN es
           /\ \A id \in DOMAIN now :
                /\ now[id].hidden = ns[id].hidden
                /\ now[id].place = IF now[id].hidden THEN was[id].place ELSE ns[id].place
           /\ \A id \in DOMAIN nowE :
                /\ nowE[id].hidden = es[id].hidden
                /\ nowE[id].look = IF nowE[id].hidden THEN wasE[id].look
                                   ELSE es[id].look

\* a focused view in which a hidden edge still has the width and colour an
\* earlier focus on another node gave it and a hidden node the place it had
\* then, next to shown edges encoded for the present focal node
C10_Witness ==
    /\ Focused
    /\ \E i \in DOMAIN edges :
         /\ edges[i].hidden
         /\ edges[i].wr_center # WrUndefined
         /\ edges[i].color.fmt = "rgb"
         /\ EdgeLook(edges[i]) # baseEdgeState[edges[i].id]
    /\ \E i \in IncidentEdges : ~edges[i].hidden /\ edges[i].wr_center # WrUndefined
    /\ \E i \in DOMAIN nodes :
         nodes[i].hidden /\ NodePlace(nodes[i]) # baseNodeState[nodes[i].id]

\* C11: after a focus on a node N, a deselect event puts the view back in the
\* base state: what the deselectNode handler leaves has every node and edge
\* shown, every node at the position and fixed flag, and every edge with the
\* from, to, color, arrows and width, of the base snapshot.
C11_DeselectRestoresBase ==
    Focused =>
        /\ NodePresentation(deselectNodeNodes) = NodePresentation(BaseNodes)
        /\ EdgePresentation(deselectNodeEdges) = EdgePresentation(BaseEdges)

\* C12: build_graph called with an archetype table of zero rows raises no
\* exception and returns a graph with zero nodes and zero edges.
C12_EmptyInputNoError ==
    (Built /\ tables[DEFAULT_RANGE_KEY].archetypes_df = <<>>) =>
        /\ ~TheG.raised
        /\ TheG.nodes = <<>>
        /\ TheG.edges = <<>>

\* the data nodes and the edges that are shown
VisibleDataNodeIds ==
    {nodes[i].id : i \in {j \in DOMAIN nodes : ~nodes[j].hidden /\ ~nodes[j].is_label_node}}
VisibleEdges == {i \in DOMAIN edges : ~edges[i].hidden}
\* the edges of the payload between n and another node
PayloadEdgesOf(n) ==
    {i \in DOMAIN ThePayload.edges :
        ThePayload.edges[i].from = n \/ ThePayload.edges[i].to = n}

\* C13: focus(N) on a data node N with no incident edge leaves exactly one
\* data node shown, N itself, placed at the origin and fixed, no edge shown and
\* an empty side-panel table.
C13_FocusIsolatedNode ==
    (Focused /\ PayloadEdgesOf(filterValue) = {}) =>
        /\ VisibleDataNodeIds = {filterValue}
        /\ NodePlace(ItemById(nodes, filterValue)) = [x |-> Zero, y |-> ZeroY, fixed |-> TRUE]
        /\ VisibleEdges = {}
        /\ matchupBody = <<>>

\* the isolated node C is focused in a dataset that has an edge between A and
\* B: C is alone at the origin and the edge is hidden
C13_Witness ==
    /\ Focused /\ filterValue = "C"
    /\ PayloadEdgesOf("C") = {}
    /\ Len(edges) >= 1
    /\ VisibleDataNodeIds = {"C"}
    /\ ItemById(nodes, "C").x = Zero /\ ItemById(nodes, "C").y = ZeroY
    /\ ItemById(nodes, "C").x # baseNodeState["C"].x
    /\ matchupBody = <<>>

\* C14: a cell with zero matches or without winrate is not in the matchup
\* table parse_page returns, and no edge of a graph built from that table has
\* matches = 0 (nor fewer than MIN_MATCHES_EDGE) or an undefined winrate.
C14_NoDataCellsNeverEdges ==
    /\ \A k \in DOMAIN tables \cap DOMAIN html :
         \A i \in DOMAIN tables[k].matchups_df :
            /\ tables[k].matchups_df[i].matches # 0
            /\ tables[k].matchups_df[i].winrate_a_vs_b # NoWinrate
    /\ \A k \in DOMAIN graphs_by_format \cap DOMAIN html :
         \A i \in DOMAIN graphs_by_format[k].G.edges :
            LET e == graphs_by_format[k].G.edges[i]
            IN /\ e.matches >= MIN_MATCHES_EDGE
               /\ e.winrate # NoWinrate /\ e.winrate \in 0..1000
               /\ e.winrate_from # NoWinrate

\* a page with a no-data cell (A, B), a cell of zero matches (B, A) and a cell
\* with data (A, C): the graph built from it has the edge A - C only
C14_Witness ==
    /\ Built /\ DEFAULT_RANGE_KEY \in DOMAIN html
    /\ html[DEFAULT_RANGE_KEY].trs[1].tds[2] = NoDataTd
    /\ html[DEFAULT_RANGE_KEY].trs[2].tds[1].matches_number = 0
    /\ html[DEFAULT_RANGE_KEY].trs[1].tds[3].matches_number = 100
    /\ Len(TheMatchups) = 1
    /\ Len(TheG.edges) = 1
    /\ TheG.edges[1].matches = 100

\* C15: each of scale_log, scale_sqrt and scale_power returns a value within
\* [out_min, out_max] for every value and every domain with vmin <= vmax
\* (vmin = vmax and vmin <= 0 included), given out_min <= out_max.
C15_BoundedScaling ==
    scaled # <<>> =>
        /\ ~scaled.raised
        /\ scaled.out_min <= scaled.result /\ scaled.result <= scaled.out_max

\* a call that returns does return a value within [out_min, out_max]
ScaleBoundedWhenReturned ==
    (scaled # <<>> /\ ~scaled.raised) =>
        (scaled.out_min <= scaled.result /\ scaled.result <= scaled.out_max)

\* C16: the initial sort is by matches descending; a click on the header of
\* the current sort column toggles the direction, and two such clicks in a
\* row give the direction back; a click on another column makes it the sort
\* key; the rows shown for the focal node are ordered by the current key and
\* direction.
RowsOrdered(rows, sortKey, sortDir) ==
    \A i \in 1..(Len(rows) - 1) : ~RowBefore(rows[i + 1], rows[i], sortKey, sortDir)
OtherDir(d) == IF d = "asc" THEN "desc" ELSE "asc"
C16_SortStateMachine ==
    currentRangeKey # "" =>
        /\ (tableSortKey = "" /\ tableSortDir = "" /\ Focused)
               => RowsOrdered(matchupBody, "matches", "desc")
        /\ \A key \in SortKeys :
             LET k == SortKeyOr(tableSortKey)
                 d == SortDirOr(tableSortDir)
                 s1 == setSort(tableSortKey, tableSortDir, key)
                 s2 == setSort(s1[1], s1[2], key)
             IN IF key = k
                THEN /\ SortKeyOr(s1[1]) = k /\ SortDirOr(s1[2]) = OtherDir(d)
                     /\ SortKeyOr(s2[1]) = k /\ SortDirOr(s2[2]) = d
                ELSE /\ SortKeyOr(s1[1]) = key
                     /\ SortKeyOr(s2[1]) = key
                     /\ SortDirOr(s2[2]) = OtherDir(SortDirOr(s1[2]))
        /\ Focused => RowsOrdered(matchupBody, SortKeyOr(tableSortKey),
                                  SortDirOr(tableSortDir))
\* the focal node has two rows that after two clicks on the winrate header are
\* shown by winrate ascending, against their order by matches descending
C16_Witness ==
    /\ Focused
    /\ tableSortKey = "winrate" /\ tableSortDir = "asc"
    /\ Len(matchupBody) = 2
    /\ matchupBody[1].winrate < matchupBody[2].winrate
    /\ matchupBody[1].matches < matchupBody[2].matches

\* C17: right after focus(N) the data nodes shown are exactly N and the nodes
\* adjacent to N, the edges shown are exactly the edges incident to N, and a
\* label node is shown iff its base node is shown.
PayloadNeighbours(n) ==
    {IF ThePayload.edges[i].from = n THEN ThePayload.edges[i].to
                                     ELSE ThePayload.edges[i].from :
        i \in PayloadEdgesOf(n)}
C17_FocusVisibility ==
    Focused =>
        /\ VisibleDataNodeIds = {filterValue} \cup PayloadNeighbours(filterValue)
        /\ {edges[i].id : i \in VisibleEdges} =
               {ThePayload.edges[i].id : i \in PayloadEdgesOf(filterValue)}
        /\ \A i \in DOMAIN nodes :
               nodes[i].is_label_node =>
                  /\ nodes[i].base_id \in ItemIds(nodes)
                  /\ nodes[i].hidden = ItemById(nodes, nodes[i].base_id).hidden
\* B is focused where the edges are A-B and C-A: A and B and their labels are
\* shown, C and its label and the edge between C and A are not
C17_Witness ==
    /\ Focused /\ filterValue = "B"
    /\ VisibleDataNodeIds = {"A", "B"}
    /\ Len(edges) = 2 /\ Cardinality(VisibleEdges) = 1
    /\ ItemById(nodes, LabelId("C")).hidden
    /\ ~ItemById(nodes, LabelId("A")).hidden

\* C18: after focus(N) every shown edge between N and a neighbour M that is
\* not neutral has an arrowhead and runs from N to M iff N's win probability
\* against M is above one half and from M to N iff it is below, that
\* probability being winrate_from if N is the stored source of the edge and
\* 1 - winrate_from if N is its stored destination; every shown neutral edge
\* has no arrowhead and N as its from endpoint.
C18_FocusDirectionEncoding ==
    Focused =>
        \A i \in VisibleEdges :
            LET e == edges[i]
                stored == ItemById(ThePayload.edges, e.id)
                N == filterValue
                M == IF stored.from = N THEN stored.to ELSE stored.from
                win == IF stored.from = N THEN stored.winrate_from
                                          ELSE 1000 - stored.winrate_from
            IN IF stored.neutral
               THEN e.arrows = "" /\ e.from = N
               ELSE /\ e.arrows = "to"
                    /\ (e.from = N /\ e.to = M) <=> win > 500
                    /\ (e.from = M /\ e.to = N) <=> win < 500
\* the focal node is the stored destination of an edge whose stored winrate
\* is just outside the tie band: the edge is shown running towards the focal
\* node
C18_Witness ==
    /\ Focused
    /\ \E i \in VisibleEdges :
         LET stored == ItemById(ThePayload.edges, edges[i].id)
         IN /\ stored.to = filterValue
            /\ ~stored.neutral
            /\ stored.winrate_from = 506
            /\ edges[i].to = filterValue /\ edges[i].arrows = "to"
\* a neutral edge is shown from the focal node, which is its stored destination
C18_WitnessNeutral ==
    /\ Focused
    /\ \E i \in VisibleEdges :
         LET stored == ItemById(ThePayload.edges, edges[i].id)
         IN stored.neutral /\ stored.to = filterValue /\ edges[i].from = filterValue

\* the data nodes of the serialized dataset that have a position, and the
\* radius of the ring a node is on
Rendered == DEFAULT_RANGE_KEY \in DOMAIN datasetsByFormat
RenderedDataNodes ==
    SelectSeq(datasetsByFormat[DEFAULT_RANGE_KEY].nodes,
              LAMBDA n : ~n.is_label_node /\ n.fixed)
RingRadiusOf(n) == n.x.r
TableMatches == OverallMatchesColumn(tables[DEFAULT_RANGE_KEY].archetypes_df)

\* C19 as stated: of two archetypes the one with more overall_matches is
\* never on a ring with a larger radius, and the archetype with the most
\* overall_matches is on the innermost ring (radius RING_RADIUS_BASE).
C19_HigherVolumeInner ==
    Rendered =>
        /\ \A i, j \in DOMAIN RenderedDataNodes :
              RenderedDataNodes[i].matches > RenderedDataNodes[j].matches
                 => RingRadiusOf(RenderedDataNodes[i]) <= RingRadiusOf(RenderedDataNodes[j])
        /\ \A i \in DOMAIN RenderedDataNodes :
              RenderedDataNodes[i].matches = SetMax(TableMatches)
                 => RingRadiusOf(RenderedDataNodes[i]) = RING_RADIUS_BASE
\* C19, amended: of two archetypes the one with more overall_matches is never
\* on a ring with a smaller radius, and the archetype with the most
\* overall_matches is on the outermost ring (radius RING_RADIUS_BASE +
\* (RING_COUNT - 1) * RING_RADIUS_STEP) when that number is above max(1, the
\* least overall_matches), and on the innermost ring otherwise.
C19_HigherVolumeOuter ==
    Rendered =>
        /\ \A i, j \in DOMAIN RenderedDataNodes :
              RenderedDataNodes[i].matches > RenderedDataNodes[j].matches
                 => RingRadiusOf(RenderedDataNodes[i]) >= RingRadiusOf(RenderedDataNodes[j])
        /\ \A i \in DOMAIN RenderedDataNodes :
              RenderedDataNodes[i].matches = SetMax(TableMatches)
                 => RingRadiusOf(RenderedDataNodes[i]) =
                       IF SetMax(TableMatches) > Max2(1, SetMin(TableMatches))
                       THEN RING_RADIUS_BASE + (RING_COUNT - 1) * RING_RADIUS_STEP
                       ELSE RING_RADIUS_BASE
\* three archetypes with 100, 50 and 10 matches are rendered on three rings,
\* the one with 100 on the outermost and the one with 10 on the innermost
C19_Witness ==
    /\ Rendered
    /\ Len(RenderedDataNodes) = 3
    /\ \E i, j, k \in DOMAIN RenderedDataNodes :
         /\ RenderedDataNodes[i].matches = 100
         /\ RenderedDataNodes[j].matches = 50
         /\ RenderedDataNodes[k].matches = 10
         /\ RingRadiusOf(RenderedDataNodes[i]) > RingRadiusOf(RenderedDataNodes[j])
         /\ RingRadiusOf(RenderedDataNodes[j]) > RingRadiusOf(RenderedDataNodes[k])
         /\ RingRadiusOf(RenderedDataNodes[k]) = RING_RADIUS_BASE

\* C20: in every serialized dataset the k data nodes on the same ring occupy
\* k equally spaced angular slots of the ring (consecutive nodes 2*pi/k
\* apart), also when the archetype table holds more archetypes than the
\* cutoff renders.  Angles are in turns, num / den.
OnRingOf(i) ==
    {j \in DOMAIN RenderedDataNodes :
        RingRadiusOf(RenderedDataNodes[j]) = RingRadiusOf(RenderedDataNodes[i])}
\* the angle between two nodes, as a fraction of a turn <<numerator, denominator>>
AngleBetween(n1, n2) == <<n1.x.num * n2.x.den - n2.x.num * n1.x.den, n1.x.den * n2.x.den>>
C20_EvenAngularSpacing ==
    Rendered =>
        \A i, j \in DOMAIN RenderedDataNodes :
            (i # j /\ j \in OnRingOf(i)) =>
                LET k == Cardinality(OnRingOf(i))
                    d == AngleBetween(RenderedDataNodes[i], RenderedDataNodes[j])
                IN /\ d[1] % d[2] # 0
                   /\ (k * d[1]) % d[2] = 0
\* without a cutoff the nodes of a ring are evenly spaced
C20_EvenWithoutCutoff == TOP_N_ARCHETYPES = 0 => C20_EvenAngularSpacing

\* C21: after focus(N) the side panel has exactly one row per shown edge
\* incident to N, with the name of the other endpoint, the matches of the
\* edge and N's win probability against that neighbour: 0.5 for a neutral
\* edge, winrate_from if N is the favoured side, 1 - winrate_from otherwise,
\* whichever side is the source in the serialized data.
PanelRowFor(i) ==
    LET stored == ItemById(ThePayload.edges, edges[i].id)
        N == filterValue
    IN [deck |-> IF stored.from = N THEN stored.to ELSE stored.from,
        winrate |-> IF stored.neutral THEN 500
                    ELSE IF stored.from = N THEN stored.winrate_from
                    ELSE 1000 - stored.winrate_from,
        matches |-> stored.matches]
C21_SidePanelContent ==
    Focused =>
        /\ Len(matchupBody) = Cardinality(VisibleEdges)
        /\ {matchupBody[k] : k \in DOMAIN matchupBody} = {PanelRowFor(i) : i \in VisibleEdges}
        /\ \A i \in VisibleEdges : edges[i].from = filterValue \/ edges[i].to = filterValue
\* the focal node has a row for an edge it is the favoured side of and a row
\* for an edge it is the other side of
C21_Witness ==
    /\ Focused
    /\ Len(matchupBody) = 2
    /\ \E i, j \in VisibleEdges :
         /\ ItemById(ThePayload.edges, edges[i].id).from = filterValue
         /\ ItemById(ThePayload.edges, edges[j].id).to = filterValue
         /\ ~ItemById(ThePayload.edges, edges[i].id).neutral
         /\ ~ItemById(ThePayload.edges, edges[j].id).neutral
    /\ \E k \in DOMAIN matchupBody : matchupBody[k].winrate = 300

\* C22: the colour the re-projection gives an edge for a win probability w is
\* the colour the builder's law gives w (same RGB value), so focusing the
\* favoured side of a non-neutral edge leaves the edge's colour equal to its
\* base colour.
C22_SameColourLaw ==
    Focused =>
        \A i \in VisibleEdges :
            LET e == edges[i]
                stored == ItemById(ThePayload.edges, e.id)
            IN /\ RGBOf(e.color) = RGBOf(edge_winrate_color(e.wr_center))
               /\ (~stored.neutral /\ stored.from = filterValue)
                     => RGBOf(e.color) = RGBOf(stored.color)
\* at a winrate where both laws are saturated (or at exactly one half) the
\* two layers give the same RGB value
C22_SameAtSaturation ==
    Focused =>
        \A i \in VisibleEdges :
            edges[i].wr_center \in {0, 500, 1000}
               => RGBOf(edges[i].color) = RGBOf(edge_winrate_color(edges[i].wr_center))

\* C23: after any sequence of focus and reset actions every non-neutral edge
\* has the from and to of its serialized entry (favoured -> disfavoured) and
\* its arrowhead: a focus on either endpoint never flips it, only neutral
\* edges are re-oriented.
C23_DirectionStable ==
    Loaded =>
        \A i \in DOMAIN edges :
            LET stored == ItemById(ThePayload.edges, edges[i].id)
            IN /\ ~stored.neutral =>
                    /\ edges[i].from = stored.from /\ edges[i].to = stored.to
                    /\ edges[i].arrows = "to"
                    /\ stored.winrate_from > 500
               /\ (edges[i].from # stored.from \/ edges[i].to # stored.to) => stored.neutral
\* the disfavoured side of an edge stored with winrate 0.505, just outside the
\* tie band, is focused: the edge still runs towards it, with its arrowhead
C23_Witness ==
    /\ Focused
    /\ \E i \in VisibleEdges :
         LET stored == ItemById(ThePayload.edges, edges[i].id)
         IN /\ ~stored.neutral /\ stored.winrate_from = 505
            /\ stored.to = filterValue
            /\ edges[i].wr_center = 495
            /\ edges[i].from = stored.from /\ edges[i].arrows = "to"
\* a neutral edge is re-oriented by a focus on its stored destination
C23_WitnessNeutralFlipped ==
    /\ Loaded
    /\ \E i \in DOMAIN edges :
         LET stored == ItemById(ThePayload.edges, edges[i].id)
         IN stored.neutral /\ edges[i].from = stored.to /\ edges[i].to = stored.from

\* C24: for any node B, what is shown after focus(B) (the positions of the
\* shown data nodes, the from, to, color, arrows and width of the shown edges
\* and the rows of the side panel) is the same whether focus(B) is applied to
\* the base state, right after a focus on another node, or a second time.
C24_FocusHistoryIndependent ==
    Loaded =>
        \A B \in DataNodeIds :
            LET ns == ResetThenFocusNodes(B)
                es == ResetThenFocusEdges(B)
                now == SwitchNodes(B)
                nowE == SwitchEdges(B)
            IN /\ DOMAIN now = DOMAIN ns /\ DOMAIN nowE = DOMAIN es
               /\ \A id \in DOMAIN now :
                    /\ now[id].hidden = ns[id].hidden
                    /\ (id \in DataNodeIds /\ ~now[id].hidden) => now[id].place = ns[id].place
               /\ \A id \in DOMAIN nowE :
                    /\ nowE[id].hidden = es[id].hidden
                    /\ ~nowE[id].hidden => nowE[id].look = es[id].look
               /\ renderMatchups(showRelationsEdges(edges, B), B, tableSortKey, tableSortDir)
                    = renderMatchups(showRelationsEdges(BaseEdges, B), B, tableSortKey,
                                     tableSortDir)
\* A is focused after an earlier focus on C: C is hidden where that focus put
\* it, and A's view has a row
C24_Witness ==
    /\ Focused /\ filterValue = "A"
    /\ ItemById(nodes, "C").hidden
    /\ ItemById(nodes, "C").x = Zero
    /\ ItemById(nodes, "A").x = Zero
    /\ Len(matchupBody) = 1


\* the un-focused view: every node and edge visible, with the base place of
\* every node and the base from, to, color, arrows and width of every edge
UnfocusedView ==
    /\ NodePresentation(nodes) = NodePresentation(BaseNodes)
    /\ EdgePresentation(edges) = EdgePresentation(BaseEdges)
    /\ \A i \in DOMAIN nodes : ~nodes[i].hidden
    /\ \A i \in DOMAIN edges : ~edges[i].hidden
\* the focus view of node N: what showRelations(N) gives on the base state, in
\* the hidden flag of every element, the place of every shown data node, the
\* look of every shown edge and the rows of the side panel
FocusViewOf(N) ==
    LET ns == ResetThenFocusNodes(N)
        es == ResetThenFocusEdges(N)
        now == NodePresentation(nodes)
        nowE == EdgePresentation(edges)
    IN /\ DOMAIN now = DOMAIN ns /\ DOMAIN nowE = DOMAIN es
       /\ \A id \in DOMAIN now :
            /\ now[id].hidden = ns[id].hidden
            /\ (id \in DataNodeIds /\ ~now[id].hidden) => now[id].place = ns[id].place
       /\ \A id \in DOMAIN nowE :
            /\ nowE[id].hidden = es[id].hidden
            /\ ~nowE[id].hidden => nowE[id].look = es[id].look
       /\ matchupBody = renderMatchups(showRelationsEdges(BaseEdges, N), N, tableSortKey,
                                       tableSortDir)

\* C25 as stated: in every state reached through node selection, deselection,
\* filter change, reset click and format or range change, the archetype filter
\* value is '__all__' if and only if the view is un-focused, and when the filter
\* holds a node id the view is the focus view of exactly that node.
C25_FilterViewAgreement ==
    Loaded =>
        /\ (filterValue = ALL) <=> UnfocusedView
        /\ filterValue \in DataNodeIds => FocusViewOf(filterValue)

\* C25 (amended): the archetype filter value is '__all__' or empty if and only
\* if the view is un-focused, and when the filter holds a node id the view is
\* the focus view of exactly that node.
C25_FilterViewAgreementAmended ==
    Loaded =>
        /\ (filterValue = ALL \/ filterValue = "") <=> UnfocusedView
        /\ filterValue \in DataNodeIds => FocusViewOf(filterValue)
        /\ filterValue \in {ALL, ""} \cup DataNodeIds

\* the filter was cleared in the second range after a focus there: the value is
\* empty and the view un-focused
C25_Witness ==
    /\ Loaded /\ currentRangeKey # defaultRangeKey
    /\ filterValue = ""
    /\ Len(edges) = 1 /\ edges[1].wr_center # WrUndefined
    /\ UnfocusedView
\* a node of the second range is focused, reached after a range change
C25_WitnessFocused ==
    /\ Loaded /\ currentRangeKey # defaultRangeKey
    /\ filterValue = "B"
    /\ Len(edges) = 1
    /\ FocusViewOf("B")

\* a step that loads a dataset: the page is opened, or the range or the format
\* select changes
LoadStep == OpenPage \/ RangeChange \/ FormatChange
\* the snapshot is the one initBaseState takes of the loaded dataset's payload
SnapshotOfLoaded ==
    /\ baseNodeState = initBaseNodeState(ThePayload.nodes)
    /\ baseEdgeState = initBaseEdgeState(ThePayload.edges)
    /\ baseSizes = initBaseSizes(ThePayload.nodes)
\* the elements of the view are those of the loaded dataset
ElementsOfLoaded ==
    /\ ItemIds(nodes) = ItemIds(ThePayload.nodes)
    /\ ItemIds(edges) = ItemIds(ThePayload.edges)
\* every data node has the place and every edge the look of its entry in the
\* loaded dataset's payload
RestoredFromLoaded ==
    /\ \A i \in DOMAIN nodes :
         ~nodes[i].is_label_node =>
            NodePlace(nodes[i]) = NodePlace(ItemById(ThePayload.nodes, nodes[i].id))
    /\ \A i \in DOMAIN edges :
         EdgeLook(edges[i]) = EdgeLook(ItemById(ThePayload.edges, edges[i].id))

\* C26: after loadDataset for any range, also when a node of the previous
\* dataset was focused, the base snapshot holds exactly the node and edge ids of
\* the newly loaded dataset with that dataset's serialized attributes and no
\* focal node is active (the filter is '__all__', the side panel empty, the view
\* un-focused); whatever follows, the snapshot stays that of the loaded dataset
\* and every reset view has the loaded dataset's elements with its attributes.
C26_SwitchRecapturesBase ==
    /\ [][LoadStep => (SnapshotOfLoaded /\ ElementsOfLoaded /\ filterValue = ALL
                       /\ matchupBody = <<>>)']_vars
    /\ [](Loaded => (/\ SnapshotOfLoaded
                     /\ ElementsOfLoaded
                     /\ filterValue = ALL => (UnfocusedView /\ RestoredFromLoaded)))

\* the second range is loaded (the page opens on the default range) and its
\* snapshot has the two nodes and the edge of that range, none of the default
\* range's node C, and the row B-A stored from A with A's winrate
C26_Witness ==
    /\ Loaded /\ currentRangeKey # defaultRangeKey
    /\ Len(datasetsByFormat[defaultRangeKey].edges) = 1
    /\ filterValue = ALL
    /\ "C" \notin DOMAIN baseNodeState /\ "B" \in DOMAIN baseNodeState
    /\ Cardinality(DOMAIN baseEdgeState) = 1
    /\ \A id \in DOMAIN baseEdgeState : baseEdgeState[id].from = "A"

\* C27: when the filtered matchup table holds several rows of one unordered
\* pair (mirrored or duplicate), the edge of the pair is derived from the first
\* of them in table order alone: it has that row's matches, it is neutral
\* exactly when that row's winrate is a tie, a neutral edge runs from the row's
\* a to its b with winrate_from 0.5, and a directed edge runs from the side the
\* row favours with that side's winrate by the row (the row's winrate, or its
\* complement when the row's b is favoured), whatever the later rows say.
C27_FirstRowAuthoritative ==
    BuiltOk =>
        \A i \in DOMAIN TheG.edges :
            LET e == TheG.edges[i]
                r == FirstRowOfPair(e.from, e.to)
                w == r.winrate_a_vs_b
            IN /\ RowsOfPair(e.from, e.to) # {}
               /\ e.matches = r.matches
               /\ e.neutral <=> IsTie(w)
               /\ e.neutral => e.from = r.a /\ e.to = r.b /\ e.winrate_from = 500
               /\ ~e.neutral =>
                    /\ e.from = (IF w > 500 THEN r.a ELSE r.b)
                    /\ e.to = (IF w > 500 THEN r.b ELSE r.a)
                    /\ e.winrate_from = (IF w > 500 THEN w ELSE 1000 - w)
                    /\ e.winrate = e.winrate_from

\* a duplicate of the first row's orientation with another winrate and another
\* number of matches, both rows in the filtered set
C27_Witness ==
    /\ BuiltOk
    /\ Len(TheMatchups) = 2
    /\ TheMatchups[1].a = "A" /\ TheMatchups[1].b = "B"
    /\ TheMatchups[2].a = "A" /\ TheMatchups[2].b = "B"
    /\ TheMatchups[1].winrate_a_vs_b = 700 /\ TheMatchups[2].winrate_a_vs_b = 300
    /\ TheMatchups[1].matches = 100 /\ TheMatchups[2].matches = 10
    /\ PassesFilter(TheMatchups[1]) /\ PassesFilter(TheMatchups[2])
    /\ Len(TheG.edges) = 1 /\ TheG.edges[1].from = "A" /\ TheG.edges[1].winrate_from = 700
\* a mirrored second row that is not the complement of the first
C27_WitnessMirrored ==
    /\ BuiltOk
    /\ Len(TheMatchups) = 2
    /\ TheMatchups[1].a = "B" /\ TheMatchups[1].b = "A"
    /\ TheMatchups[2].a = "A" /\ TheMatchups[2].b = "B"
    /\ TheMatchups[1].winrate_a_vs_b = 300 /\ TheMatchups[2].winrate_a_vs_b = 300
    /\ PassesFilter(TheMatchups[1]) /\ PassesFilter(TheMatchups[2])
    /\ Len(TheG.edges) = 1 /\ TheG.edges[1].from = "A" /\ TheG.edges[1].winrate_from = 700

\* C28: in every view, un-focused or focused on any node, for any two distinct
\* data nodes r and c the cells matchupFor(r, c) and matchupFor(c, r) are both
\* null, or both defined with the same matches and winrates that add up to 1;
\* matchupFor(r, r) is the diagonal marker.
C28_MatrixComplement ==
    Loaded =>
        \A r, c \in DataNodeIds :
            LET rc == matchupFor(edges, r, c)
                cr == matchupFor(edges, c, r)
            IN IF r = c
               THEN rc = [isNull |-> FALSE, wr |-> 500, matches |-> 0, diag |-> TRUE]
               ELSE /\ rc.isNull <=> cr.isNull
                    /\ ~rc.diag /\ ~cr.diag
                    /\ ~rc.isNull => rc.matches = cr.matches /\ rc.wr + cr.wr = 1000

\* a focused view with a directed edge read against its direction (0.3 for the
\* row B, 0.7 for the row A), a neutral edge the focus has turned round, and a
\* pair without an edge
C28_Witness ==
    /\ Focused /\ filterValue = "A"
    /\ matchupFor(edges, "B", "A").wr = 300 /\ matchupFor(edges, "A", "B").wr = 700
    /\ \E i \in DOMAIN edges :
         /\ edges[i].neutral /\ edges[i].from = "A"
         /\ baseEdgeState[edges[i].id].from = "C"
         /\ matchupFor(edges, "C", "A").wr = 500
    /\ matchupFor(edges, "B", "C").isNull /\ matchupFor(edges, "C", "B").isNull

\* the ranges of format f that were fetched or loaded from the cache
BuiltRanges(f) ==
    {r \in Range(RangeKeys) : outcome[<<f, r>>] \in {"fetched", "cached"}}
MainOver == mainResult \in {"RuntimeError", "KeyError", "rendered"}

\* C29: over every combination of outcomes of the (format, range) pairs, when
\* main gets through its loops either no dataset was built and it raises
\* RuntimeError without rendering, or render_pyvis is called with a registry that
\* holds exactly the formats with a built range, each with exactly its built
\* ranges (so at least one), and with a default format key in the registry and
\* a default range key in that format: the key checks of render_pyvis never
\* raise.  Main stops before that only when parse_page or build_graph raises.
C29_NeverRendersMissingDefault ==
    /\ mainResult # "KeyError"
    /\ mainResult = "RuntimeError" =>
          /\ registry = <<>>
          /\ \A f \in Range(FormatKeys) : BuiltRanges(f) = {}
    /\ mainResult = "rendered" =>
          /\ DOMAIN registry = {f \in Range(FormatKeys) : BuiltRanges(f) # {}}
          /\ \A f \in DOMAIN registry :
                DOMAIN registry[f] = BuiltRanges(f) /\ DOMAIN registry[f] # {}
          /\ default_format_key \in DOMAIN registry
          /\ default_range_key \in DOMAIN registry[default_format_key]
          /\ DEFAULT_FORMAT_KEY \in DOMAIN registry => default_format_key = DEFAULT_FORMAT_KEY
          /\ DEFAULT_RANGE_KEY \in DOMAIN registry[default_format_key] =>
                default_range_key = DEFAULT_RANGE_KEY
    /\ mainResult = "aborted" => \E fr \in FormatRangePairs : outcome[fr] = "raised"
    /\ (mainResult = "running" /\ format_pos > Len(FormatKeys)) =>
          (ENABLED MainRaise \/ ENABLED MainRender)

\* the page is rendered although the default format gave nothing and the other
\* format has no default range: both defaults fall back
C29_Witness ==
    /\ mainResult = "rendered"
    /\ BuiltRanges(DEFAULT_FORMAT_KEY) = {}
    /\ default_format_key = "standard"
    /\ DEFAULT_RANGE_KEY \notin DOMAIN registry["standard"]
    /\ default_range_key = "last60days"
\* everything was skipped: RuntimeError, nothing rendered
C29_WitnessNothingBuilt ==
    /\ mainResult = "RuntimeError"
    /\ \A fr \in FormatRangePairs : outcome[fr] = "skipped"

\* a step of a handler other than a header click
OtherHandlerStep ==
    \/ OpenPage
    \/ SelectNode
    \/ DeselectNode
    \/ FilterChange
    \/ ResetClick
    \/ RangeChange
    \/ FormatChange
SortChanged == tableSortKey' # tableSortKey \/ tableSortDir' # tableSortDir

\* C30: the sort key and direction change in a step of setSort alone: a focus,
\* a reset, a deselect, a filter change and a format or range change leave them
\* as they are; and the rows shown for any focal node, of any dataset, are in
\* the order of the key and direction then current.
C30_SortAmbient ==
    /\ [][(OtherHandlerStep => ~SortChanged) /\ (SortChanged => SetSort)]_vars
    /\ [](Focused => matchupBody = renderMatchups(showRelationsEdges(BaseEdges, filterValue),
                                                  filterValue, tableSortKey, tableSortDir))
    /\ [](Focused => RowsOrdered(matchupBody, SortKeyOr(tableSortKey),
                                 SortDirOr(tableSortDir)))

\* the second range is shown with A focused, and its two rows are in the order
\* of winrate descending, which differs from the default order by matches
C30_Witness ==
    /\ Focused /\ currentRangeKey # defaultRangeKey /\ filterValue = "A"
    /\ tableSortKey = "winrate" /\ tableSortDir = "desc"
    /\ Len(matchupBody) = 2
    /\ matchupBody[1].winrate > matchupBody[2].winrate
    /\ matchupBody[1].matches < matchupBody[2].matches
====
